---- MODULE Spec2Model ----
(***************************************************************************)
(* The chat component of whats-your-ride: the parser that splits a bot     *)
(* reply into a short answer, a motorcycle table and suggestions           *)
(* (ChatComponent.parseStructuredResponse, parseMotorcycleTable,           *)
(* parseAdvancedSingleLine in chat.component.ts).                          *)
(*                                                                         *)
(* A JavaScript string is a sequence of one-character strings, indexed     *)
(* from 1.  An optional value (a field that may be unset, a function that  *)
(* may return null) is a sequence of length 0 (absent) or 1 (present).     *)
(***************************************************************************)
EXTENDS Integers, Sequences, FiniteSets, TLC

VARIABLES
    content,      \* Spec: the reply text handed to parseStructuredResponse
    result,       \* Spec: the FormattedResponse it returned
    spans,        \* Spec: where in content each section was matched
    pc,           \* Spec: "received" before the reply is parsed, "parsed" after
    sections,     \* Spec: the text before and after the table block of the reply
    tableLines,   \* SpecTable: the rows of the block text, one string per row
    layout,       \* SpecTable: "lines" (rows joined by \n) or "collapsed" (by a space)
    tableString,  \* SpecTable: the block text handed to parseMotorcycleTable
    table,        \* SpecTable: the MotorcycleTableData it returned, or absent for null
    rowCells,     \* SpecTable: the cells array each pushed row was built from
    tablePc,      \* SpecTable: "ready" before the call, "done" after
    messages,     \* SpecChat: the messages signal of ChatComponent
    isLoading,    \* SpecChat: the isLoading signal of ChatComponent
    isTyping,     \* SpecChat: the isTyping signal of ChatComponent
    authState,    \* SpecAuth: the _authState signal of AuthService
    localStorage, \* SpecAuth: the browser's localStorage, key to stored value
    sessionStorage, \* SpecAuth: the browser's sessionStorage, key to stored value
    requests,     \* SpecAuth: the HTTP requests sent and not yet answered
    refreshTimer, \* SpecAuth: whether the token refresh timer is armed
    location,     \* SpecAuth: the URL of the router's last navigation
    delivered,    \* SpecAuth: what the last call's observable gave its subscriber
    calls,        \* SpecAuth: the number of calls made to AuthService so far
    queryParams,  \* SpecAuth: the query parameters of the router's last navigation
    loggedOut     \* SpecAuth: logout() has run and login() was not called since

vars ==
    <<content, result, spans, pc, sections, tableLines, layout, tableString, table, rowCells,
      tablePc, messages, isLoading, isTyping, authState, localStorage, sessionStorage,
      requests, refreshTimer, location, delivered, calls, queryParams, loggedOut>>

chatVars == <<messages, isLoading, isTyping>>

authVars ==
    <<authState, localStorage, sessionStorage, requests, refreshTimer, location, delivered,
      calls, queryParams, loggedOut>>

segVars == <<content, result, spans, pc, sections>>

(***************************************************************************)
(* Bounds of the model and constants of the program.                       *)
(***************************************************************************)
MaxTableLines == 3

MaxRows == 3

MaxItems == 2

\* the messages the user sends in one chat
MaxTurns == 2

\* the calls made to AuthService (login, logout, refreshToken)
MaxCalls == 3

\* the HTTP requests of AuthService awaiting an answer at one time
MaxInFlight == 2

MinCells == 8

TableCells == 9

MinSuggestionLength == 10

(***************************************************************************)
(* Optional values.                                                        *)
(***************************************************************************)
None == <<>>

Some(v) == <<v>>

IsSome(o) == Len(o) = 1

(***************************************************************************)
(* Characters.                                                             *)
(***************************************************************************)
NL == "\n"

Pipe == "|"

WhiteSpace == {" ", "\n", "\t", "\r"}

AsciiUpper ==
    <<"A", "B", "C", "D", "E", "F", "G", "H", "I", "J", "K", "L", "M", "N", "O", "P", "Q", "R",
      "S", "T", "U", "V", "W", "X", "Y", "Z">>

AsciiLower ==
    <<"a", "b", "c", "d", "e", "f", "g", "h", "i", "j", "k", "l", "m", "n", "o", "p", "q", "r",
      "s", "t", "u", "v", "w", "x", "y", "z">>

UpperSet == {AsciiUpper[i] : i \in 1..Len(AsciiUpper)}

LowerSet == {AsciiLower[i] : i \in 1..Len(AsciiLower)}

\* [A-Za-z]
IsAsciiLetter(c) == c \in UpperSet \/ c \in LowerSet

toLowerChar(c) ==
    IF c \in UpperSet
    THEN AsciiLower[CHOOSE i \in 1..Len(AsciiUpper) : AsciiUpper[i] = c]
    ELSE c

(***************************************************************************)
(* String methods of JavaScript, on sequences of characters.               *)
(***************************************************************************)
\* the literal lit occurs in s at index i
startsWithAt(s, i, lit) ==
    /\ i >= 1
    /\ i + Len(lit) - 1 <= Len(s)
    /\ \A k \in 1..Len(lit) : s[i + k - 1] = lit[k]

\* the least element of a non-empty set of integers
Min(S) == CHOOSE x \in S : \A y \in S : x <= y

\* s.indexOf(lit, i): the first index >= i where lit occurs, 0 when there is none
indexOfFrom(s, lit, i) ==
    LET at == {j \in i..(Len(s) - Len(lit) + 1) : startsWithAt(s, j, lit)}
    IN  IF at = {} THEN 0 ELSE Min(at)

\* s.includes(lit)
includes(s, lit) == indexOfFrom(s, lit, 1) # 0

RECURSIVE skipSpaces(_, _)
\* a greedy \s* from index i: the index of the first character that is not white space
skipSpaces(s, i) ==
    IF i <= Len(s) /\ s[i] \in WhiteSpace THEN skipSpaces(s, i + 1) ELSE i

RECURSIVE skipSpacesBack(_, _)
skipSpacesBack(s, j) ==
    IF j >= 1 /\ s[j] \in WhiteSpace THEN skipSpacesBack(s, j - 1) ELSE j

\* s.trim()
trim(s) ==
    LET a == skipSpaces(s, 1)
    IN  IF a > Len(s) THEN <<>> ELSE SubSeq(s, a, skipSpacesBack(s, Len(s)))

\* s.toLowerCase()
toLowerCase(s) == IF s = <<>> THEN <<>> ELSE [i \in 1..Len(s) |-> toLowerChar(s[i])]

\* the indices of s that satisfy Test, in order
indicesWhere(s, Test(_)) ==
    IF s = <<>> THEN <<>> ELSE SelectSeq([i \in 1..Len(s) |-> i], Test)

\* the pieces of s between the cut indices: a piece ends before each cut, and the next
\* starts skip characters after it
piecesAt(s, cuts, skip) ==
    [k \in 1..(Len(cuts) + 1) |->
        SubSeq(s,
               IF k = 1 THEN 1 ELSE cuts[k - 1] + skip,
               IF k > Len(cuts) THEN Len(s) ELSE cuts[k] - 1)]

\* s.split(c) for a one-character separator
split(s, c) == piecesAt(s, indicesWhere(s, LAMBDA i : s[i] = c), 1)

\* arr.map(x => x.trim())
trimAll(arr) == IF arr = <<>> THEN <<>> ELSE [i \in 1..Len(arr) |-> trim(arr[i])]

\* arr.filter(x => x !== '')
nonEmpty(arr) == SelectSeq(arr, LAMBDA x : x # <<>>)

RECURSIVE joinFrom(_, _, _)
joinFrom(arr, sep, i) ==
    IF i > Len(arr) THEN <<>>
    ELSE IF i = Len(arr) THEN arr[i]
    ELSE arr[i] \o sep \o joinFrom(arr, sep, i + 1)

\* arr.join(sep)
join(arr, sep) == joinFrom(arr, sep, 1)

\* the indices of the pipe characters of s, in order
pipePositions(s) == indicesWhere(s, LAMBDA i : s[i] = Pipe)

(***************************************************************************)
(* String literals of the parser.                                          *)
(***************************************************************************)
LitOne == <<"1", ")">>

LitTwo == <<"2", ")">>

LitThree == <<"3", ")">>

LitStars == <<"*", "*">>

LitRisposta == <<"*", "*", "R", "i", "s", "p", "o", "s", "t", "a">>

LitBreve == <<"b", "r", "e", "v", "e", "*", "*">>

LitSuggerimenti == <<"*", "*", "S", "u", "g", "g", "e", "r", "i", "m", "e", "n", "t", "i">>

LitPer == <<"p", "e", "r">>

LitAffinare == <<"a", "f", "f", "i", "n", "a", "r", "e">>

LitLa == <<"l", "a">>

LitRicerca == <<"r", "i", "c", "e", "r", "c", "a", "*", "*">>

LitMarca == <<"M", "a", "r", "c", "a">>

LitMarcaLower == <<"m", "a", "r", "c", "a">>

LitDashes == <<"-", "-", "-">>

LitEquals == <<"=", "=", "=", "=">>

TableTitle == "Moto consigliate per principianti"

DefaultColumns ==
    << <<"M", "a", "r", "c", "a">>,
       <<"M", "o", "d", "e", "l", "l", "o">>,
       <<"V", "e", "r", "s", "i", "o", "n", "e">>,
       <<"C", "i", "l", "i", "n", "d", "r", "a", "t", "a", " ", "(", "c", "c", ")">>,
       <<"P", "o", "t", "e", "n", "z", "a", " ", "(", "h", "p", ")">>,
       <<"P", "e", "s", "o", " ", "a", " ", "s", "e", "c", "c", "o", " ", "(", "k", "g", ")">>,
       <<"P", "e", "s", "o", " ", "a", " ", "p", "i", "e", "n", "o", " ", "c", "a", "r", "i",
         "c", "o", " ", "(", "k", "g", ")">>,
       <<"P", "r", "e", "z", "z", "o", " ", "(", "€", ")">>,
       <<"M", "o", "t", "i", "v", "a", "z", "i", "o", "n", "e">> >>

(***************************************************************************)
(* parseMotorcycleTable and parseAdvancedSingleLine.                       *)
(***************************************************************************)
\* cells[k] || ''   (k counted from 1)
cellOrEmpty(cells, k) == IF k <= Len(cells) THEN cells[k] ELSE <<>>

\* cells[k] && cells[k] !== '-' ? cells[k] : ''
weightCell(cells, k) ==
    IF k <= Len(cells) /\ cells[k] # <<>> /\ cells[k] # <<"-">> THEN cells[k] ELSE <<>>

\* the MotorcycleRow built from a cells array
motorcycleRow(cells) ==
    [brand        |-> cellOrEmpty(cells, 1),
     model        |-> cellOrEmpty(cells, 2),
     version      |-> cellOrEmpty(cells, 3),
     displacement |-> cellOrEmpty(cells, 4),
     power        |-> cellOrEmpty(cells, 5),
     dryWeight    |-> weightCell(cells, 6),
     fullWeight   |-> weightCell(cells, 7),
     price        |-> cellOrEmpty(cells, 8),
     notes        |-> cellOrEmpty(cells, 9)]

motorcycleRows(cellsList) ==
    IF cellsList = <<>> THEN <<>>
    ELSE [i \in 1..Len(cellsList) |-> motorcycleRow(cellsList[i])]

\* what both parsers compute: whether a table is returned, its columns, and the cells
\* array behind each of its rows
NoTable == [found |-> FALSE, columns |-> <<>>, cells |-> <<>>]

\* a match of motorcyclePattern starts at the x-th pipe: nine non-empty runs of
\* non-pipe characters, each closed by a pipe
advancedMatchAt(P, x) ==
    /\ x + TableCells <= Len(P)
    /\ \A k \in 0..(TableCells - 1) : P[x + k + 1] > P[x + k] + 1

\* match.slice(1).map(cell => cell.trim())
advancedCells(s, P, x) ==
    [k \in 1..TableCells |-> trim(SubSeq(s, P[x + k - 1] + 1, P[x + k] - 1))]

RECURSIVE advancedMatchesFrom(_, _, _)
\* Array.from(tableString.matchAll(motorcyclePattern)), as trimmed cells arrays
advancedMatchesFrom(s, P, x) ==
    IF x + TableCells > Len(P) THEN <<>>
    ELSE IF advancedMatchAt(P, x)
         THEN <<advancedCells(s, P, x)>> \o advancedMatchesFrom(s, P, x + TableCells + 1)
         ELSE advancedMatchesFrom(s, P, x + 1)

advancedIsHeader(cells) ==
    cells[1] # <<>> /\ includes(toLowerCase(cells[1]), LitMarcaLower)

advancedIsSeparator(cells) ==
    cells[1] # <<>> /\ (includes(cells[1], <<"-">>) \/ includes(cells[1], <<"=">>))

advancedIsRow(cells) ==
    Len(cells) >= MinCells /\ cells[1] # <<>> /\ cells[2] # <<>>

RECURSIVE advancedHeaderIndex(_, _)
\* the first match taken as the header, 0 when there is none
advancedHeaderIndex(matches, i) ==
    IF i > Len(matches) THEN 0
    ELSE IF advancedIsHeader(matches[i]) THEN i
    ELSE advancedHeaderIndex(matches, i + 1)

RECURSIVE advancedRowCells(_, _, _)
advancedRowCells(matches, h, i) ==
    IF i > Len(matches) THEN <<>>
    ELSE IF i # h /\ ~advancedIsSeparator(matches[i]) /\ advancedIsRow(matches[i])
         THEN <<matches[i]>> \o advancedRowCells(matches, h, i + 1)
         ELSE advancedRowCells(matches, h, i + 1)

advancedSingleLine(tableString_) ==
    LET matches == advancedMatchesFrom(tableString_, pipePositions(tableString_), 1)
        h == advancedHeaderIndex(matches, 1)
        cells == advancedRowCells(matches, h, 1)
    IN  IF Len(matches) = 0 \/ Len(cells) = 0 THEN NoTable
        ELSE [found   |-> TRUE,
              columns |-> IF h # 0 THEN matches[h] ELSE DefaultColumns,
              cells   |-> cells]

\* the precondition check without its header term: the pipe alone
isTableTextNoHeaderTerm(tableString_) == includes(tableString_, <<Pipe>>)

\* !tableString.includes('|') || !tableString.includes('Marca') is false
isTableText(tableString_) ==
    includes(tableString_, <<Pipe>>) /\ includes(tableString_, LitMarca)

\* tableString.trim().split('\n').filter(line => line.trim())
newlineLines(tableString_) ==
    SelectSeq(split(trim(tableString_), NL), LAMBDA line : trim(line) # <<>>)

\* the lookahead (?=\|\s*[A-Za-z][^|]*\s*\|) holds at index i
rowPatternAt(s, i) ==
    /\ s[i] = Pipe
    /\ LET j == skipSpaces(s, i + 1)
       IN  j <= Len(s) /\ IsAsciiLetter(s[j]) /\ indexOfFrom(s, <<Pipe>>, j + 1) # 0

\* tableString.split(rowPattern): a cut at every index after the first where the
\* lookahead holds; the separator is empty, so nothing is dropped
splitRowPattern(s) ==
    piecesAt(s, indicesWhere(s, LAMBDA i : i > 1 /\ rowPatternAt(s, i)), 0)

singleLineLines(tableString_) ==
    trimAll(SelectSeq(splitRowPattern(tableString_),
                      LAMBDA line : Len(trim(line)) > 0 /\ includes(line, <<Pipe>>)))

RECURSIVE headerLineIndex(_, _)
\* the first line holding 'marca' in any case and a pipe, 0 for -1
headerLineIndex(lines, i) ==
    IF i > Len(lines) THEN 0
    ELSE IF includes(toLowerCase(lines[i]), LitMarcaLower) /\ includes(lines[i], <<Pipe>>)
         THEN i
    ELSE headerLineIndex(lines, i + 1)

RECURSIVE separatorLineIndex(_, _)
\* the first line from i on holding '---' or '====', 0 for -1
separatorLineIndex(lines, i) ==
    IF i > Len(lines) THEN 0
    ELSE IF includes(lines[i], LitDashes) \/ includes(lines[i], LitEquals) THEN i
    ELSE separatorLineIndex(lines, i + 1)

\* line.split('|').map(cell => cell.trim()).filter(cell => cell !== '')
lineCells(line) == nonEmpty(trimAll(split(line, Pipe)))

\* the cell count test with a lower minimum
hasMinCellsLoose(cells) == Len(cells) >= MinCells - 3

\* cells.length >= 8
hasMinCells(cells) == Len(cells) >= MinCells

\* the brand is set, is not the header's and holds no dash
brandAccepted(brand) ==
    /\ brand # <<>>
    /\ ~includes(toLowerCase(brand), LitMarcaLower)
    /\ ~includes(brand, <<"-">>)

\* the data line is pushed as a row
lineAccepted(line) ==
    /\ includes(line, <<Pipe>>)
    /\ LET cells == lineCells(line)
       IN  hasMinCells(cells) /\ brandAccepted(cellOrEmpty(cells, 1))

acceptedLineCells(dataLines) ==
    LET kept == SelectSeq(dataLines, lineAccepted)
    IN  IF kept = <<>> THEN <<>> ELSE [i \in 1..Len(kept) |-> lineCells(kept[i])]

extractTable(tableString_) ==
    IF ~isTableText(tableString_) THEN NoTable
    ELSE
      LET lines == IF includes(tableString_, <<NL>>)
                   THEN newlineLines(tableString_)
                   ELSE singleLineLines(tableString_)
      IN  IF Len(lines) < 2 THEN advancedSingleLine(tableString_)
          ELSE
            LET h == headerLineIndex(lines, 1)
            IN  IF h = 0 THEN NoTable
                ELSE
                  LET sep == separatorLineIndex(lines, h + 1)
                      columns == lineCells(lines[h])
                      dataStartIndex == IF sep # 0 THEN sep + 1 ELSE h + 1
                      dataLines == SubSeq(lines, dataStartIndex, Len(lines))
                      cells == acceptedLineCells(dataLines)
                  IN  IF Len(cells) = 0 THEN advancedSingleLine(tableString_)
                      ELSE [found |-> TRUE, columns |-> columns, cells |-> cells]

\* the MotorcycleTableData of an extraction, absent for null
tableData(e) ==
    IF e.found
    THEN Some([title |-> TableTitle, columns |-> e.columns, rows |-> motorcycleRows(e.cells)])
    ELSE None

parseAdvancedSingleLine(tableString_) == tableData(advancedSingleLine(tableString_))

parseMotorcycleTable(tableString_) == tableData(extractTable(tableString_))

(***************************************************************************)
(* parseStructuredResponse: the regular expressions, matched as the        *)
(* engine matches them.  A match of a capture group is the range           *)
(* first..last of the text (last = first - 1 when the group is empty).     *)
(***************************************************************************)
NoMatch == [found |-> FALSE, first |-> 0, last |-> 0]

Match(a, b) == [found |-> TRUE, first |-> a, last |-> b]

\* the text of a matched range
textOf(s, m) == SubSeq(s, m.first, m.last)

\* (.*?)(?=\s*stop|$) with the s flag, from index k: the first index e >= k that is
\* the end of the text or is followed by white space and stop; the group is k..e-1
lazyUntil(s, k, stop) ==
    Min({e \in k..(Len(s) + 1) : e = Len(s) + 1 \/ startsWithAt(s, skipSpaces(s, e), stop)})

\* \*\*Risposta\s+breve\*\* (or, with oneSpace, \*\*Risposta breve\*\*) at index j:
\* the index after it, 0 when it does not match
labelEnd(s, j, oneSpace) ==
    IF ~startsWithAt(s, j, LitRisposta) THEN 0
    ELSE LET a == j + Len(LitRisposta)
             b == IF oneSpace
                  THEN (IF a <= Len(s) /\ s[a] = " " THEN a + 1 ELSE a)
                  ELSE skipSpaces(s, a)
         IN  IF b > a /\ startsWithAt(s, b, LitBreve) THEN b + Len(LitBreve) ELSE 0

\* the capture group that starts after white space at index a and runs to stop
groupUntil(s, a, stop) ==
    LET k == skipSpaces(s, a)
    IN  Match(k, lazyUntil(s, k, stop) - 1)

\* /1\)\s*\*\*Risposta\s+breve\*\*\s*(.*?)(?=\s*2\)|$)/s, and altPatterns[0] with oneSpace
enumeratedLabelPattern(s, oneSpace) ==
    LET at == {i \in 1..Len(s) :
                 startsWithAt(s, i, LitOne) /\ labelEnd(s, skipSpaces(s, i + 2), oneSpace) # 0}
    IN  IF at = {} THEN NoMatch
        ELSE groupUntil(s, labelEnd(s, skipSpaces(s, Min(at) + 2), oneSpace), LitTwo)

\* altPatterns[1]: /\*\*Risposta\s+breve\*\*\s*(.*?)(?=\s*\*\*|$)/s
labelOnlyPattern(s) ==
    LET at == {i \in 1..Len(s) : labelEnd(s, i, FALSE) # 0}
    IN  IF at = {} THEN NoMatch ELSE groupUntil(s, labelEnd(s, Min(at), FALSE), LitStars)

\* altPatterns[2]: /1\)\s*(.*?)(?=\s*2\)|$)/s
enumeratorOnlyPattern(s) ==
    LET i == indexOfFrom(s, LitOne, 1)
    IN  IF i = 0 THEN NoMatch ELSE groupUntil(s, i + Len(LitOne), LitTwo)

\* the first of shortAnswerPattern and the altPatterns that matches
shortAnswerMatch(s) ==
    LET m1 == enumeratedLabelPattern(s, FALSE)
        m2 == enumeratedLabelPattern(s, TRUE)
        m3 == labelOnlyPattern(s)
    IN  IF m1.found THEN m1
        ELSE IF m2.found THEN m2
        ELSE IF m3.found THEN m3
        ELSE enumeratorOnlyPattern(s)

\* result.shortAnswer = match[1].trim()
shortAnswerOf(s) ==
    LET m == shortAnswerMatch(s)
    IN  IF m.found THEN Some(trim(textOf(s, m))) ELSE None

\* tablePatterns[0]: /\|\s*Marca\s*\|.*?\|\s*[^|]+\s*\|/gs.  A match starts at the x-th
\* pipe when the cell after it is Marca; it ends at the pipe that closes the first
\* non-empty cell found after the Marca cell's closing pipe.
marcaCellAt(s, P, x) ==
    x + 1 <= Len(P) /\ trim(SubSeq(s, P[x] + 1, P[x + 1] - 1)) = LitMarca

marcaMatchClose(P, x) ==
    LET ys == {y \in (x + 2)..(Len(P) - 1) : P[y + 1] > P[y] + 1}
    IN  IF ys = {} THEN 0 ELSE Min(ys) + 1

RECURSIVE marcaPatternFrom(_, _, _)
marcaPatternFrom(s, P, x) ==
    IF x + 3 > Len(P) THEN <<>>
    ELSE IF marcaCellAt(s, P, x) /\ marcaMatchClose(P, x) # 0
         THEN <<Match(P[x], P[marcaMatchClose(P, x)])>>
                  \o marcaPatternFrom(s, P, marcaMatchClose(P, x) + 1)
         ELSE marcaPatternFrom(s, P, x + 1)

marcaPattern(s) == marcaPatternFrom(s, pipePositions(s), 1)

\* tablePatterns[1]: /\|[^|]*\|[^|]*\|[^|]*\|[^|]*\|[^|]*\|[^|]*\|[^|]*\|[^|]*\|[^|]*\|/g:
\* every run of ten consecutive pipes, without overlap
tenPipesPattern(s) ==
    LET P == pipePositions(s)
        n == Len(P) \div (TableCells + 1)
    IN  [m \in 1..n |-> Match(P[(TableCells + 1) * (m - 1) + 1], P[(TableCells + 1) * m])]

\* . without the s flag matches no line terminator
LineTerminators == {"\n", "\r"}

sameLine(s, a, b) == \A i \in a..b : s[i] \notin LineTerminators

\* the y-th pipe is followed by another pipe on its line
pipeFollowed(s, P, y) == y + 1 <= Len(P) /\ sameLine(s, P[y], P[y + 1])

\* the index of the last pipe on the line of the y-th pipe
RECURSIVE lastPipeOnLine(_, _, _)
lastPipeOnLine(s, P, y) ==
    IF pipeFollowed(s, P, y) THEN lastPipeOnLine(s, P, y + 1) ELSE y

\* tablePatterns[2]: /\|.*\|[\s\S]*?\|.*\|/ tried at the x-th pipe: the index of the
\* pipe that ends the match, 0 when there is none.  The first .* runs to the last pipe
\* of the line; the lazy part then reaches the first later pipe that is followed by
\* another on its line; failing that the first .* gives back two pipes of its own line.
anyPipesEnd(s, P, x) ==
    IF ~pipeFollowed(s, P, x) THEN 0
    ELSE LET l == lastPipeOnLine(s, P, x)
             later == {y \in (l + 1)..Len(P) : pipeFollowed(s, P, y)}
         IN  IF later # {} THEN lastPipeOnLine(s, P, Min(later))
             ELSE IF l >= x + 3 THEN l
             ELSE 0

anyPipesPattern(s) ==
    LET P == pipePositions(s)
        at == {x \in 1..Len(P) : anyPipesEnd(s, P, x) # 0}
    IN  IF at = {} THEN <<>> ELSE <<Match(P[Min(at)], P[anyPipesEnd(s, P, Min(at))])>>

\* content.match(tablePatterns[i]), as the matched ranges
tablePatternMatches(s, i) ==
    IF i = 1 THEN marcaPattern(s)
    ELSE IF i = 2 THEN tenPipesPattern(s)
    ELSE anyPipesPattern(s)

\* tableMatch.join('\n')
fullTable(s, matches) ==
    join([k \in 1..Len(matches) |-> textOf(s, matches[k])], <<NL>>)

\* the table parsed from the matches of pattern i, absent when the pattern does not
\* match or parses to no row
tableOfPattern(s, i) ==
    LET matches == tablePatternMatches(s, i)
    IN  IF Len(matches) = 0 THEN None ELSE parseMotorcycleTable(fullTable(s, matches))

\* a variant that stops at the first pattern that matches, rows or not
tablePatternUsedFirstMatch(s) ==
    IF tablePatternMatches(s, 1) # <<>> THEN 1
    ELSE IF tablePatternMatches(s, 2) # <<>> THEN 2
    ELSE IF tablePatternMatches(s, 3) # <<>> THEN 3
    ELSE 0

\* the first pattern whose table has rows, 0 when tableFound stays false
tablePatternUsed(s) ==
    IF IsSome(tableOfPattern(s, 1)) THEN 1
    ELSE IF IsSome(tableOfPattern(s, 2)) THEN 2
    ELSE IF IsSome(tableOfPattern(s, 3)) THEN 3
    ELSE 0

detailsOf(s) ==
    LET i == tablePatternUsed(s)
    IN  IF i = 0 THEN None ELSE tableOfPattern(s, i)

\* the range of content the details table was parsed from
detailsMatch(s) ==
    LET i == tablePatternUsed(s)
        matches == tablePatternMatches(s, i)
    IN  IF i = 0 THEN NoMatch ELSE Match(matches[1].first, matches[Len(matches)].last)

RECURSIVE wordsEnd(_, _, _, _)
\* \s+word for each of the words from the k-th on, from index a: the index after
\* the last one, 0 when it does not match
wordsEnd(s, a, words, k) ==
    IF k > Len(words) THEN a
    ELSE LET b == skipSpaces(s, a)
         IN  IF b > a /\ startsWithAt(s, b, words[k])
             THEN wordsEnd(s, b + Len(words[k]), words, k + 1)
             ELSE 0

\* \*\*Suggerimenti\s+per\s+affinare\s+la\s+ricerca\*\* at index j
suggestionsLabelEnd(s, j) ==
    IF ~startsWithAt(s, j, LitSuggerimenti) THEN 0
    ELSE wordsEnd(s, j + Len(LitSuggerimenti), <<LitPer, LitAffinare, LitLa, LitRicerca>>, 1)

\* \s*(.*?)(?=$) with the s flag from index a: the rest of the text after white space
groupToEnd(s, a) == Match(skipSpaces(s, a), Len(s))

\* suggestionsPatterns[0]
enumeratedSuggestionsPattern(s) ==
    LET at == {i \in 1..Len(s) :
                 startsWithAt(s, i, LitThree)
                     /\ suggestionsLabelEnd(s, skipSpaces(s, i + Len(LitThree))) # 0}
    IN  IF at = {} THEN NoMatch
        ELSE groupToEnd(s, suggestionsLabelEnd(s, skipSpaces(s, Min(at) + Len(LitThree))))

\* \*\*Suggerimenti[^*]*\*\* at index j: the index after it, 0 when it does not match
looseLabelEnd(s, j) ==
    IF ~startsWithAt(s, j, LitSuggerimenti) THEN 0
    ELSE LET b == indexOfFrom(s, <<"*">>, j + Len(LitSuggerimenti))
         IN  IF b # 0 /\ startsWithAt(s, b, LitStars) THEN b + Len(LitStars) ELSE 0

\* suggestionsPatterns[1]
labelSuggestionsPattern(s) ==
    LET at == {i \in 1..Len(s) : looseLabelEnd(s, i) # 0}
    IN  IF at = {} THEN NoMatch ELSE groupToEnd(s, looseLabelEnd(s, Min(at)))

\* suggestionsPatterns[2]
enumeratorSuggestionsPattern(s) ==
    LET i == indexOfFrom(s, LitThree, 1)
    IN  IF i = 0 THEN NoMatch ELSE groupToEnd(s, i + Len(LitThree))

suggestionsPatternMatch(s, i) ==
    IF i = 1 THEN enumeratedSuggestionsPattern(s)
    ELSE IF i = 2 THEN labelSuggestionsPattern(s)
    ELSE enumeratorSuggestionsPattern(s)

\* raw.split(/\s*-\s*/): every dash is a separator, with the white space around it
splitDashes(raw) ==
    LET D == indicesWhere(raw, LAMBDA i : raw[i] = "-")
    IN  [k \in 1..(Len(D) + 1) |->
            SubSeq(raw,
                   IF k = 1 THEN 1 ELSE skipSpaces(raw, D[k - 1] + 1),
                   IF k > Len(D) THEN Len(raw) ELSE skipSpacesBack(raw, D[k] - 1))]

\* the filter with s.length >= 10
suggestionKeptInclusive(piece) ==
    trim(piece) # <<>> /\ Len(piece) >= MinSuggestionLength

\* s.trim() && s.length > 10
suggestionKept(piece) == trim(piece) # <<>> /\ Len(piece) > MinSuggestionLength

\* s.trim().replace(/\.$/, '')
cleanSuggestion(piece) ==
    LET t == trim(piece)
    IN  IF t # <<>> /\ t[Len(t)] = "." THEN SubSeq(t, 1, Len(t) - 1) ELSE t

suggestionsOfText(raw) ==
    LET kept == SelectSeq(splitDashes(raw), suggestionKept)
    IN  IF kept = <<>> THEN <<>> ELSE [k \in 1..Len(kept) |-> cleanSuggestion(kept[k])]

\* the suggestions of pattern i, empty when it does not match or keeps nothing
suggestionsOfPattern(s, i) ==
    LET m == suggestionsPatternMatch(s, i)
    IN  IF m.found THEN suggestionsOfText(textOf(s, m)) ELSE <<>>

\* the first pattern that keeps at least one suggestion, 0 when none does
suggestionsPatternUsed(s) ==
    IF Len(suggestionsOfPattern(s, 1)) > 0 THEN 1
    ELSE IF Len(suggestionsOfPattern(s, 2)) > 0 THEN 2
    ELSE IF Len(suggestionsOfPattern(s, 3)) > 0 THEN 3
    ELSE 0

suggestionsOf(s) ==
    LET i == suggestionsPatternUsed(s)
    IN  IF i = 0 THEN None ELSE Some(suggestionsOfPattern(s, i))

suggestionsMatch(s) ==
    LET i == suggestionsPatternUsed(s)
    IN  IF i = 0 THEN NoMatch ELSE suggestionsPatternMatch(s, i)

\* the result with rawContent: content.trim() in place of rawContent: content
parseStructuredResponseTrimmed(content_) ==
    [shortAnswer |-> shortAnswerOf(content_),
     details     |-> detailsOf(content_),
     suggestions |-> suggestionsOf(content_),
     rawContent  |-> trim(content_)]

\* private parseStructuredResponse(content: string): FormattedResponse
parseStructuredResponse(content_) ==
    [shortAnswer |-> shortAnswerOf(content_),
     details     |-> detailsOf(content_),
     suggestions |-> suggestionsOf(content_),
     rawContent  |-> content_]

\* the ranges of content behind the three sections of the result
matchedSpans(content_) ==
    [shortAnswer |-> shortAnswerMatch(content_),
     details     |-> detailsMatch(content_),
     suggestions |-> suggestionsMatch(content_)]

(***************************************************************************)
(* SpecTable: parseMotorcycleTable applied to block texts.  A block text   *)
(* is up to MaxTableLines rows, written one per line or collapsed onto a   *)
(* single line as the backend sends them.                                  *)
(***************************************************************************)
LineHeader ==
    <<"|", " ", "M", "a", "r", "c", "a", " ", "|", "M", "o", "|", "V", "e", "|", "c", "c", "|",
      "h", "p", "|", "P", "s", "|", "P", "p", "|", "P", "r", "|", "N", "o", "|">>

LineHeaderLower ==
    <<"|", "m", "a", "r", "c", "a", "|", "m", "o", "|", "v", "e", "|", "c", "c", "|", "h", "p",
      "|", "p", "s", "|", "p", "p", "|", "p", "r", "|", "n", "o", "|">>

LineDashes ==
    <<"|", "-", "-", "-", "|", "-", "-", "-", "|", "-", "-", "-", "|", "-", "-", "-", "|", "-",
      "-", "-", "|", "-", "-", "-", "|", "-", "-", "-", "|", "-", "-", "-", "|", "-", "-", "-",
      "|">>

LineEquals ==
    <<"|", "=", "=", "=", "=", "|", "=", "=", "=", "=", "|", "=", "=", "=", "=", "|", "=", "=",
      "=", "=", "|", "=", "=", "=", "=", "|", "=", "=", "=", "=", "|", "=", "=", "=", "=", "|",
      "=", "=", "=", "=", "|", "=", "=", "=", "=", "|">>

LineHonda ==
    <<"|", " ", "H", "o", "n", "d", "a", " ", "|", "C", "B", "|", "R", "|", "4", "7", "1", "|",
      "4", "6", "|", "-", "|", "1", "9", "2", "|", "6", ".", "8", "|", "o", "k", "|">>

LineKtm ==
    <<"|", "K", "T", "M", "|", "3", "9", "0", "|", "3", "9", "0", " ", "A", "|", "3", "7", "3",
      "|", "4", "3", "|", "1", "5", "8", "|", "-", "|", "7", ".", "6", "|", "g", "o", "|">>

LineHarley ==
    <<"|", "H", "-", "D", "|", "S", "p", "|", "S", "|", "9", "7", "5", "|", "9", "0", "|", "-",
      "|", "2", "2", "8", "|", "1", "7", "|", "u", "s", "|">>

LineFiveCells == <<"|", "B", "m", "w", "|", "G", "S", "|", "x", "|", "9", "|", "8", "|">>

LineEightCells ==
    <<"|", "S", "u", "z", "u", "k", "i", "|", "G", "S", "|", "S", "|", "1", "2", "4", "|", "1",
      "5", "|", "-", "|", "1", "3", "4", "|", "4", ".", "5", "|">>

LineProse == <<"L", "a", " ", "M", "a", "r", "c", "a">>

HeaderLines == {LineHeader, LineHeaderLower}

NineCellRows == {LineHonda, LineKtm, LineHarley}

LineKinds ==
    HeaderLines \cup NineCellRows
        \cup {LineDashes, LineEquals, LineFiveCells, LineEightCells, LineProse}

LineSeqs == UNION {[1..n -> LineKinds] : n \in 1..MaxTableLines}

Layouts == {"lines", "collapsed"}

\* the block text of rows written one per line, or collapsed onto one line
blockText(lines, lay) == join(lines, IF lay = "lines" THEN <<NL>> ELSE <<" ">>)

\* the chat component is not part of this specification
ChatIdle ==
    /\ messages = <<>>
    /\ isLoading = FALSE
    /\ isTyping = FALSE

\* the authentication service is not part of this specification
AuthIdle ==
    /\ authState = None
    /\ localStorage = None
    /\ sessionStorage = None
    /\ requests = <<>>
    /\ refreshTimer = FALSE
    /\ location = <<>>
    /\ delivered = None
    /\ calls = 0
    /\ queryParams = None
    /\ loggedOut = FALSE

InitTable ==
    /\ tableLines \in LineSeqs
    /\ layout \in Layouts
    /\ tableString = blockText(tableLines, layout)
    /\ table = None
    /\ rowCells = <<>>
    /\ tablePc = "ready"
    /\ content = <<>>
    /\ result = None
    /\ spans = None
    /\ pc = "idle"
    /\ sections = None
    /\ ChatIdle
    /\ AuthIdle

\* const tableResult = this.parseMotorcycleTable(fullTable)
ParseMotorcycleTable ==
    /\ tablePc = "ready"
    /\ LET e == extractTable(tableString)
       IN  /\ table' = tableData(e)
           /\ rowCells' = e.cells
    /\ tablePc' = "done"
    /\ UNCHANGED <<tableLines, layout, tableString, segVars, chatVars, authVars>>

NextTable == ParseMotorcycleTable

SpecTable == InitTable /\ [][NextTable]_vars

(***************************************************************************)
(* Spec: parseStructuredResponse applied to replies.  A reply is a text    *)
(* before the table block, the table block (a header, an optional          *)
(* separator row, up to MaxRows rows) and a text after it, joined by       *)
(* newlines or collapsed onto a single line.                               *)
(***************************************************************************)
ShortLabelled ==
    <<"1", ")", " ", "*", "*", "R", "i", "s", "p", "o", "s", "t", "a", " ", "b", "r", "e", "v",
      "e", "*", "*", " ", "M", "o", "t", "o", " ", "o", "k", ".", " ", "2", ")", " ", "*", "*",
      "D", "e", "t", "t", "a", "g", "l", "i", "*", "*">>

ShortPlainLabel ==
    <<"1", ")", " ", "R", "i", "s", "p", "o", "s", "t", "a", " ", "b", "r", "e", "v", "e", ":",
      " ", "X", " ", "2", ")", " ", "D", "e", "t", "t", "a", "g", "l", "i", ":">>

ShortWithYear ==
    <<"1", ")", " ", "*", "*", "R", "i", "s", "p", "o", "s", "t", "a", " ", "b", "r", "e", "v",
      "e", "*", "*", " ", "L", "a", " ", "C", "B", " ", "(", "2", "0", "2", "3", ")", " ", "v",
      "a", ".", " ", "2", ")", " ", "*", "*", "D", "e", "t", "t", "a", "g", "l", "i", "*", "*">>

ShortNoDetailsMark ==
    <<"1", ")", " ", "*", "*", "R", "i", "s", "p", "o", "s", "t", "a", " ", "b", "r", "e", "v",
      "e", "*", "*", " ", "M", "o", "t", "o", " ", "o", "k", ".">>

ProsePlain == <<"U", "n", "a", " ", "m", "o", "t", "o", " ", "o", "t", "t", "i", "m", "a", ".">>

ProseWithYear ==
    <<"L", "a", " ", "C", "B", " ", "(", "2", "0", "2", "3", ")", " ", "v", "a", " ", "b", "e",
      "n", "e", " ", "d", "a", " ", "s", "u", "b", "i", "t", "o", ".">>

SuggLabelled ==
    <<"3", ")", " ", "*", "*", "S", "u", "g", "g", "e", "r", "i", "m", "e", "n", "t", "i", " ",
      "p", "e", "r", " ", "a", "f", "f", "i", "n", "a", "r", "e", " ", "l", "a", " ", "r", "i",
      "c", "e", "r", "c", "a", "*", "*", " ", "-", " ", "F", "i", "l", "t", "r", "a", " ", "p",
      "e", "r", " ", "p", "e", "s", "o", ".", " ", "-", " ", "S", "c", "e", "g", "l", "i", " ",
      "i", "l", " ", "b", "u", "d", "g", "e", "t", ".">>

SuggPlainLabel ==
    <<"3", ")", " ", "S", "u", "g", "g", "e", "r", "i", "m", "e", "n", "t", "i", ":", " ", "-",
      " ", "a", " ", "-", " ", "b">>

SuggShortItems ==
    <<"3", ")", " ", "*", "*", "S", "u", "g", "g", "e", "r", "i", "m", "e", "n", "t", "i", " ",
      "p", "e", "r", " ", "a", "f", "f", "i", "n", "a", "r", "e", " ", "l", "a", " ", "r", "i",
      "c", "e", "r", "c", "a", "*", "*", " ", "-", " ", "a", " ", "-", " ", "b">>

\* the labelled suggestions of a reply that ends with a line break
SuggLabelledBreak == SuggLabelled \o <<NL>>

TextX == <<"X">>

TextMotoOk == <<"M", "o", "t", "o", " ", "o", "k", ".">>

TextA == <<"a">>

TextB == <<"b">>

TextPeso == <<"F", "i", "l", "t", "r", "a", " ", "p", "e", "r", " ", "p", "e", "s", "o">>

TextBudget == <<"S", "c", "e", "g", "l", "i", " ", "i", "l", " ", "b", "u", "d", "g", "e", "t">>

ShortParts ==
    {<<>>, ShortLabelled, ShortPlainLabel, ShortWithYear, ShortNoDetailsMark, ProsePlain,
     ProseWithYear}

SuggParts == {<<>>, SuggLabelled, SuggLabelledBreak, SuggPlainLabel, SuggShortItems}

ReplyRowKinds == {LineHonda, LineFiveCells}

ReplyRowSeqs == UNION {[1..n -> ReplyRowKinds] : n \in 1..MaxRows}

ReplyTables ==
    {<<>>} \cup {head \o rows : head \in {<<LineHeader>>, <<LineHeader, LineDashes>>},
                               rows \in ReplyRowSeqs}

\* the reply made of the text before the table, the table rows and the text after
replyText(sec, lines, lay) ==
    join(nonEmpty(<<sec.short, blockText(lines, lay), sec.sugg>>),
         IF lay = "lines" THEN <<NL>> ELSE <<" ">>)

Init ==
    /\ sections \in [short : ShortParts, sugg : SuggParts]
    /\ tableLines \in ReplyTables
    /\ layout \in Layouts
    /\ content = replyText(sections, tableLines, layout)
    /\ result = None
    /\ spans = None
    /\ pc = "received"
    /\ tableString = <<>>
    /\ table = None
    /\ rowCells = <<>>
    /\ tablePc = "idle"
    /\ ChatIdle
    /\ AuthIdle

\* const formattedResponse = this.parseStructuredResponse(response.answer)
ParseStructuredResponse ==
    /\ pc = "received"
    /\ result' = Some(parseStructuredResponse(content))
    /\ spans' = Some(matchedSpans(content))
    /\ pc' = "parsed"
    /\ UNCHANGED <<content, sections, tableLines, layout, tableString, table, rowCells, tablePc,
                   chatVars, authVars>>

Next == ParseStructuredResponse

Spec == Init /\ [][Next]_vars

(***************************************************************************)
(* SpecSuggestions: parseStructuredResponse applied to replies made of a   *)
(* suggestions label and up to MaxItems items, each introduced by a dash,  *)
(* with or without a line break at the end.                                *)
(***************************************************************************)
LabelEnumerated ==
    <<"3", ")", " ", "*", "*", "S", "u", "g", "g", "e", "r", "i", "m", "e", "n", "t", "i",
      " ", "p", "e", "r", " ", "a", "f", "f", "i", "n", "a", "r", "e", " ", "l", "a", " ",
      "r", "i", "c", "e", "r", "c", "a", "*", "*">>

LabelBold ==
    <<"*", "*", "S", "u", "g", "g", "e", "r", "i", "m", "e", "n", "t", "i", " ", "u", "t",
      "i", "l", "i", "*", "*">>

LabelEnumerator == <<"3", ")">>

ItemTen == <<"G", "u", "i", "d", "a", " ", "p", "o", "c", "o">>

ItemEleven == <<"G", "u", "i", "d", "a", " ", "p", "i", "a", "n", "o">>

ItemPeriod ==
    <<"F", "i", "l", "t", "r", "a", " ", "p", "e", "r", " ", "p", "e", "s", "o", ".">>

ItemSpacedPeriod ==
    <<"S", "c", "e", "g", "l", "i", " ", "i", "l", " ", "b", "u", "d", "g", "e", "t", " ",
      ".">>

ItemShort == <<"a">>

ItemDash == <<" ", "-", " ">>

SuggestionLabels == {LabelEnumerated, LabelBold, LabelEnumerator}

ItemKinds == {ItemTen, ItemEleven, ItemPeriod, ItemSpacedPeriod, ItemShort}

ItemSeqs == UNION {[1..n -> ItemKinds] : n \in 1..MaxItems}

Endings == {<<>>, <<NL>>}

RECURSIVE dashedItems(_, _)
\* the items from the k-th on, each after " - "
dashedItems(items, k) ==
    IF k > Len(items) THEN <<>> ELSE ItemDash \o items[k] \o dashedItems(items, k + 1)

\* the reply made of the label, the dashed items and the ending
suggestionsText(sec) == sec.label \o dashedItems(sec.items, 1) \o sec.ending

InitSuggestions ==
    /\ sections \in [label : SuggestionLabels, items : ItemSeqs, ending : Endings]
    /\ tableLines = <<>>
    /\ layout = "lines"
    /\ content = suggestionsText(sections)
    /\ result = None
    /\ spans = None
    /\ pc = "received"
    /\ tableString = <<>>
    /\ table = None
    /\ rowCells = <<>>
    /\ tablePc = "idle"
    /\ ChatIdle
    /\ AuthIdle

SpecSuggestions == InitSuggestions /\ [][Next]_vars

(***************************************************************************)
(* SpecChat: the chat component around parseStructuredResponse.  The user  *)
(* sends up to MaxTurns messages; the backend answers each with a reply    *)
(* or with an error; the chat can be cleared between handlers.  The        *)
(* handler of a reply, sendBotResponse, is followed statement by           *)
(* statement (pc "arrived", "typingRemoved", "formatted"); it runs to      *)
(* completion, so no other handler is enabled between its statements.      *)
(* Timestamps, the SQL fields of a reply and the text of the input box are *)
(* left out; the generated ids are one value, distinct from 'typing'.      *)
(***************************************************************************)
WelcomeText == <<"B", "e", "n", "v", "e", "n", "u", "t", "o">>

ClearedText == <<"C", "h", "a", "t", " ", "p", "u", "l", "i", "t", "a">>

ErrorText == <<"O", "p", "s", "!">>

UserTexts == {<<"c", "i", "a", "o">>, <<" ", "1", "2", "5", " ">>}

\* the answers of the backend: prose, and a reply with the three sections
ChatAnswers ==
    {ProsePlain,
     replyText([short |-> ShortLabelled, sugg |-> SuggLabelled], <<LineHeader, LineHonda>>,
               "collapsed")}

chatMessage(id, content_, sender, typing, formatted) ==
    [id |-> id, content |-> content_, sender |-> sender, isTyping |-> typing,
     formattedResponse |-> formatted]

welcomeMessage == chatMessage("1", WelcomeText, "bot", FALSE, None)

userMessage(message) == chatMessage("generated", message, "user", FALSE, None)

typingMessage == chatMessage("typing", <<>>, "bot", TRUE, None)

\* a variant of botMessage that drops the computed FormattedResponse
botMessageUnformatted(answer, formatted) == chatMessage("generated", answer, "bot", FALSE, None)

botMessage(answer, formatted) == chatMessage("generated", answer, "bot", FALSE, Some(formatted))

errorMessage == chatMessage("generated", ErrorText, "bot", FALSE, None)

clearedMessage == chatMessage("1", ClearedText, "bot", FALSE, None)

\* messages.filter((m) => m.id !== 'typing')
withoutTyping(msgs) == SelectSeq(msgs, LAMBDA m : m.id # "typing")

userMessages(msgs) == SelectSeq(msgs, LAMBDA m : m.sender = "user")

InitChat ==
    /\ messages = <<welcomeMessage>>
    /\ isLoading = FALSE
    /\ isTyping = FALSE
    /\ content = <<>>
    /\ result = None
    /\ spans = None
    /\ pc = "idle"
    /\ sections = None
    /\ tableLines = <<>>
    /\ layout = "lines"
    /\ tableString = <<>>
    /\ table = None
    /\ rowCells = <<>>
    /\ tablePc = "idle"
    /\ AuthIdle

chatRest == <<spans, sections, tableLines, layout, tableString, table, rowCells, tablePc, authVars>>

\* onSendMessage with the text of the input box, simulateBotTyping included
OnSendMessage(text) ==
    /\ pc \in {"idle", "waiting"}
    /\ trim(text) # <<>>
    /\ ~isLoading
    /\ Len(userMessages(messages)) < MaxTurns
    /\ messages' = messages \o <<userMessage(trim(text)), typingMessage>>
    /\ isLoading' = TRUE
    /\ isTyping' = TRUE
    /\ pc' = "waiting"
    /\ UNCHANGED <<content, result, chatRest>>

\* next: (response) => this.sendBotResponse(response), before its first statement
ResponseArrives(answer) ==
    /\ pc = "waiting"
    /\ content' = answer
    /\ result' = None
    /\ pc' = "arrived"
    /\ UNCHANGED <<chatVars, chatRest>>

\* sendBotResponse: the typing message is filtered out
RemoveTyping ==
    /\ pc = "arrived"
    /\ messages' = withoutTyping(messages)
    /\ pc' = "typingRemoved"
    /\ UNCHANGED <<content, result, isLoading, isTyping, chatRest>>

\* sendBotResponse: const formattedResponse = this.parseStructuredResponse(response.answer)
FormatResponse ==
    /\ pc = "typingRemoved"
    /\ result' = Some(parseStructuredResponse(content))
    /\ pc' = "formatted"
    /\ UNCHANGED <<content, chatVars, chatRest>>

\* sendBotResponse: the bot message is appended and the two flags are reset
AppendBotMessage ==
    /\ pc = "formatted"
    /\ messages' = Append(messages, botMessage(content, result[1]))
    /\ isLoading' = FALSE
    /\ isTyping' = FALSE
    /\ pc' = "idle"
    /\ UNCHANGED <<content, result, chatRest>>

\* error: (error) => this.sendErrorResponse()
SendErrorResponse ==
    /\ pc = "waiting"
    /\ messages' = Append(withoutTyping(messages), errorMessage)
    /\ isLoading' = FALSE
    /\ isTyping' = FALSE
    /\ pc' = "idle"
    /\ UNCHANGED <<content, result, chatRest>>

\* clearChat, from the button of the page
ClearChat ==
    /\ pc \in {"idle", "waiting"}
    /\ messages' = <<clearedMessage>>
    /\ UNCHANGED <<content, result, pc, isLoading, isTyping, chatRest>>

NextChat ==
    \/ \E text \in UserTexts : OnSendMessage(text)
    \/ \E answer \in ChatAnswers : ResponseArrives(answer)
    \/ RemoveTyping
    \/ FormatResponse
    \/ AppendBotMessage
    \/ SendErrorResponse
    \/ ClearChat

SpecChat == InitChat /\ [][NextChat]_vars

(***************************************************************************)
(* SpecSeparator: parseMotorcycleTable applied to blocks written one row   *)
(* per line: the header, then up to MaxTableLines lines, each a row of     *)
(* nine cells, a row of dashes, a row of equals signs, or a row of nine    *)
(* cells whose last cell is '---'.                                         *)
(***************************************************************************)
LineDashNote ==
    <<"|", "D", "u", "c", "a", "t", "i", "|", "M", "|", "9", "3", "7", "|", "9", "3", "7", "|",
      "1", "1", "1", "|", "1", "6", "6", "|", "1", "8", "8", "|", "1", "2", "|", "-", "-", "-",
      "|">>

LinesAfterHeader == {LineHonda, LineKtm, LineDashes, LineEquals, LineDashNote}

BlocksWithHeader ==
    {<<LineHeader>> \o rest : rest \in UNION {[1..n -> LinesAfterHeader] : n \in 1..MaxTableLines}}

InitSeparator ==
    /\ tableLines \in BlocksWithHeader
    /\ layout = "lines"
    /\ tableString = blockText(tableLines, layout)
    /\ table = None
    /\ rowCells = <<>>
    /\ tablePc = "ready"
    /\ content = <<>>
    /\ result = None
    /\ spans = None
    /\ pc = "idle"
    /\ sections = None
    /\ ChatIdle
    /\ AuthIdle

SpecSeparator == InitSeparator /\ [][NextTable]_vars

(***************************************************************************)
(* SpecAdvanced: parseAdvancedSingleLine applied to blocks of up to        *)
(* MaxTableLines rows, collapsed onto one line or written one per line:    *)
(* the header, rows of nine cells (one with a hyphen in its brand, one     *)
(* with a blank third cell), a row of eight cells and a row of dashes.     *)
(***************************************************************************)
LineBlankCell ==
    <<"|", "Y", "a", "m", "a", "h", "a", "|", "M", "T", "|", " ", "|", "6", "8", "9", "|", "7",
      "3", "|", "-", "|", "1", "8", "4", "|", "7", ".", "5", "|", "o", "k", "|">>

AdvancedLineKinds ==
    {LineHeader, LineDashes, LineHonda, LineHarley, LineBlankCell, LineEightCells}

AdvancedLineSeqs == UNION {[1..n -> AdvancedLineKinds] : n \in 1..MaxTableLines}

InitAdvanced ==
    /\ tableLines \in AdvancedLineSeqs
    /\ layout \in Layouts
    /\ tableString = blockText(tableLines, layout)
    /\ table = None
    /\ rowCells = <<>>
    /\ tablePc = "ready"
    /\ content = <<>>
    /\ result = None
    /\ spans = None
    /\ pc = "idle"
    /\ sections = None
    /\ ChatIdle
    /\ AuthIdle

\* return this.parseAdvancedSingleLine(tableString)
ParseAdvancedSingleLine ==
    /\ tablePc = "ready"
    /\ LET e == advancedSingleLine(tableString)
       IN  /\ table' = tableData(e)
           /\ rowCells' = e.cells
    /\ tablePc' = "done"
    /\ UNCHANGED <<tableLines, layout, tableString, segVars, chatVars, authVars>>

NextAdvanced == ParseAdvancedSingleLine

SpecAdvanced == InitAdvanced /\ [][NextAdvanced]_vars

(***************************************************************************)
(* SpecAuth: AuthService with its callers.  The service is constructed     *)
(* over a browser storage that is empty or holds a stored session; then    *)
(* login, logout and refreshToken are called up to MaxCalls times, the     *)
(* refresh timer fires, and the server answers the requests in flight (at  *)
(* most MaxInFlight of them) in any order.  A call and the subscription to *)
(* the observable it returns are one step, as in LoginComponent and        *)
(* DashboardComponent; the handling of a response (tap, catchError, the    *)
(* subscriber's callbacks, finalize) is one step.  The observable          *)
(* authState$ mirrors the signal and is left out, as are getUserProfile,   *)
(* resetPassword and changePassword, which leave the token alone.          *)
(***************************************************************************)
AUTH_STORAGE_KEYS == {"wyr_auth_token", "wyr_refresh_token", "wyr_user_data", "wyr_remember_me"}

\* the keys of a storage: those of the service and the login page's returnUrl
StorageKeys == AUTH_STORAGE_KEYS \cup {"returnUrl"}

emptyStorage == [key \in StorageKeys |-> None]

\* LoginResponse['data']; the refresh token is optional
payload(user, token, refreshToken) == [user |-> user, token |-> token, refreshToken |-> refreshToken]

Payloads ==
    {payload("anna", "t1", Some("r1")), payload("anna", "t2", Some("r2")),
     payload("bruno", "t2", None), payload("bruno", "t1", Some("r2"))}

\* LoginResponse bodies of an answered request
Responses ==
    {[success |-> TRUE, data |-> Some(d)] : d \in Payloads}
        \cup {[success |-> TRUE, data |-> None], [success |-> FALSE, data |-> None]}

\* HttpErrorResponse: the status and the message of the body, if any
HttpErrors ==
    [status : {401, 403, 0}, message : {None}]
        \cup [status : {500}, message : {None, Some("Errore del server")}]

\* the failures of a request whose handler does not look at the error
ServerFailures == {e \in HttpErrors : e.status \in {0, 500} /\ e.message = None}

\* JSON.stringify(user) and JSON.parse of it
stringify(user) == [json |-> user]

parse(userData) == userData.json

\* the initial value of _authState, and the value clearAuthData sets
signedOutWithUser ==
    [isAuthenticated |-> FALSE, user |-> Some("anna"), token |-> None, refreshToken |-> None,
     isLoading |-> FALSE, error |-> None]

signedOut ==
    [isAuthenticated |-> FALSE, user |-> None, token |-> None, refreshToken |-> None,
     isLoading |-> FALSE, error |-> None]

\* handleLoginSuccess: the state it sets
signedInAnonymous(data) ==
    [isAuthenticated |-> TRUE, user |-> None, token |-> Some(data.token),
     refreshToken |-> data.refreshToken, isLoading |-> FALSE, error |-> None]

signedIn(data) ==
    [isAuthenticated |-> TRUE, user |-> Some(data.user), token |-> Some(data.token),
     refreshToken |-> data.refreshToken, isLoading |-> FALSE, error |-> None]

\* storeAuthData: the storage it writes to
targetStorageSession(rememberMe) == "sessionStorage"

targetStorage(rememberMe) == IF rememberMe THEN "localStorage" ELSE "sessionStorage"

\* storeAuthData: storage after the setItem calls for the token, the user and the refresh token
withAuthData(storage, data) ==
    [key \in StorageKeys |->
        CASE key = "wyr_auth_token" -> Some(data.token)
          [] key = "wyr_user_data" -> Some(stringify(data.user))
          [] key = "wyr_refresh_token" /\ IsSome(data.refreshToken) -> data.refreshToken
          [] OTHER -> storage[key]]

\* storeAuthData: localStorage after the call
localStored(storage, data, rememberMe) ==
    LET written == IF targetStorage(rememberMe) = "localStorage"
                   THEN withAuthData(storage, data)
                   ELSE storage
    IN  IF rememberMe THEN [written EXCEPT !["wyr_remember_me"] = Some("true")] ELSE written

\* storeAuthData: sessionStorage after the call
sessionStored(storage, data, rememberMe) ==
    IF targetStorage(rememberMe) = "sessionStorage" THEN withAuthData(storage, data) ELSE storage

\* clearAuthData: a storage after removeItem of every key but the refresh token's
clearedStorageKeepingRefresh(storage) ==
    [key \in StorageKeys |->
        IF key \in AUTH_STORAGE_KEYS \ {"wyr_refresh_token"} THEN None ELSE storage[key]]

\* clearAuthData: a storage after removeItem of every key of AUTH_STORAGE_KEYS
clearedStorage(storage) ==
    [key \in StorageKeys |-> IF key \in AUTH_STORAGE_KEYS THEN None ELSE storage[key]]

\* handleAuthError: a variant that has no message of its own for status 401
authErrorMessageDefault(error) ==
    CASE error.status = 403 -> "Accesso negato"
      [] error.status = 0 -> "Errore di connessione al server"
      [] error.status \notin {403, 0} /\ IsSome(error.message) -> error.message[1]
      [] OTHER -> "Errore durante l'autenticazione"

\* handleAuthError: the message for an HttpErrorResponse
authErrorMessage(error) ==
    CASE error.status = 401 -> "Credenziali non valide"
      [] error.status = 403 -> "Accesso negato"
      [] error.status = 0 -> "Errore di connessione al server"
      [] error.status \notin {401, 403, 0} /\ IsSome(error.message) -> error.message[1]
      [] OTHER -> "Errore durante l'autenticazione"

\* a request in flight: who sent it, its body, and what its subscription needs later
request(kind, body, rememberMe, navigateToLogin, subscriber) ==
    [kind |-> kind, body |-> body, rememberMe |-> rememberMe,
     navigateToLogin |-> navigateToLogin, subscriber |-> subscriber]

Credentials == [username |-> "anna@wyr.it", password |-> "segreta"]

loginRequest(rememberMe) == request("login", Credentials, rememberMe, FALSE, "LoginComponent")

\* a variant of refreshRequest that sends the access token instead
refreshRequestWithToken(state, subscriber) ==
    request("refresh", [refreshToken |-> state.token[1]], FALSE, FALSE, subscriber)

\* const refreshRequest: RefreshTokenRequest = { refreshToken }
refreshRequest(state, subscriber) ==
    request("refresh", [refreshToken |-> state.refreshToken[1]], FALSE, FALSE, subscriber)

\* const logoutRequest: LogoutRequest = { token, refreshToken: refreshToken || undefined }
logoutRequest(state, navigateToLogin) ==
    request("logout", [token |-> state.token[1], refreshToken |-> state.refreshToken],
            FALSE, navigateToLogin, "DashboardComponent")

\* refreshToken() when the state holds no refresh token: nothing is sent
refreshCall == request("refresh", None, FALSE, FALSE, "caller")

\* logout() when the state holds no token: nothing is sent
logoutCall(navigateToLogin) == request("logout", None, FALSE, navigateToLogin, "DashboardComponent")

\* the requests in flight without the i-th
answered(i) == [k \in 1..(Len(requests) - 1) |-> IF k < i THEN requests[k] ELSE requests[k + 1]]

\* what the last step gave the subscriber of a call: nothing yet (pending), a value
\* (next) or an error with its message; with it the call, and the server's answer
outcome(op, kind, call, response, error, message) ==
    Some([op |-> op, kind |-> kind, call |-> call, response |-> response, error |-> error,
          message |-> message])

\* what a browser storage may hold when the service is constructed
StoredSessions ==
    {emptyStorage} \cup
    {withAuthData(emptyStorage, d) :
        d \in {payload("anna", "t1", Some("r1")), payload("bruno", "t2", None)}}

\* the constructor: initializeAuthState over the storage; tokenValid is isTokenValid(token).
\* With an expired token and a stored refresh token it calls refreshToken(), which reads
\* the refresh token of the state, still null, and errors without sending a request.
InitAuth ==
    /\ \E session \in StoredSessions, remembered, tokenValid \in BOOLEAN :
          LET local == IF remembered /\ session # emptyStorage
                       THEN [session EXCEPT !["wyr_remember_me"] = Some("true")]
                       ELSE emptyStorage
              inSession == IF remembered THEN emptyStorage ELSE session
              token == session["wyr_auth_token"]
              refreshToken == session["wyr_refresh_token"]
              state == [isAuthenticated |-> TRUE, user |-> Some(parse(session["wyr_user_data"][1])),
                        token |-> token, refreshToken |-> refreshToken, isLoading |-> FALSE,
                        error |-> None]
          IN  \/ /\ session = emptyStorage
                 /\ authState = signedOut
                 /\ localStorage = emptyStorage
                 /\ sessionStorage = emptyStorage
                 /\ requests = <<>>
                 /\ refreshTimer = FALSE
              \/ /\ session # emptyStorage
                 /\ tokenValid
                 /\ authState = state
                 /\ localStorage = local
                 /\ sessionStorage = inSession
                 /\ requests = <<>>
                 /\ refreshTimer = TRUE
              \/ /\ session # emptyStorage
                 /\ ~tokenValid
                 /\ IsSome(refreshToken)
                 /\ authState = signedOut
                 /\ localStorage = local
                 /\ sessionStorage = inSession
                 /\ requests = <<>>
                 /\ refreshTimer = FALSE
              \/ /\ session # emptyStorage
                 /\ ~tokenValid
                 /\ ~IsSome(refreshToken)
                 /\ authState = signedOut
                 /\ localStorage = clearedStorage(local)
                 /\ sessionStorage = clearedStorage(inSession)
                 /\ requests = <<>>
                 /\ refreshTimer = FALSE
    /\ location = "/"
    /\ delivered = None
    /\ calls = 0
    /\ queryParams = None
    /\ loggedOut = FALSE
    /\ ChatIdle
    /\ content = <<>>
    /\ result = None
    /\ spans = None
    /\ pc = "idle"
    /\ sections = None
    /\ tableLines = <<>>
    /\ layout = "lines"
    /\ tableString = <<>>
    /\ table = None
    /\ rowCells = <<>>
    /\ tablePc = "idle"

\* the routes of the application that authGuard protects
ProtectedRoutes == {"/dashboard", "/chat"}

\* a variant of canActivate that lets every navigation pass
canActivateAlways(url, state) == TRUE

\* the route is open, or authGuard returns true
canActivate(url, state) == url \notin ProtectedRoutes \/ state.isAuthenticated

\* router.navigate([url]) under authGuard: sessionStorage, the location and the query
\* parameters after it
storageAfterGuard(storage, url, state) ==
    IF canActivate(url, state) THEN storage ELSE [storage EXCEPT !["returnUrl"] = Some(url)]

locationAfterGuard(from, url, state) == IF canActivate(url, state) THEN url ELSE "/login"

paramsAfterGuard(url, state) ==
    IF canActivate(url, state) THEN None
    ELSE Some([returnUrl |-> url, reason |-> "authentication_required"])

authRest ==
    <<content, result, spans, pc, sections, tableLines, layout, tableString, table, rowCells,
      tablePc, chatVars>>

\* LoginComponent.performLogin: login(credentials, rememberMe) and the subscription
Login(rememberMe) ==
    /\ calls < MaxCalls
    /\ Len(requests) < MaxInFlight
    /\ authState' = [authState EXCEPT !.isLoading = TRUE, !.error = None]
    /\ requests' = Append(requests, loginRequest(rememberMe))
    /\ delivered' = None
    /\ calls' = calls + 1
    /\ loggedOut' = FALSE
    /\ UNCHANGED <<localStorage, sessionStorage, refreshTimer, location, queryParams, authRest>>

\* the login request is answered: tap, the subscriber's next (redirectAfterLogin when
\* response.success, a navigation that the guard of the route decides), finalize
LoginResponse(i, response) ==
    /\ i \in 1..Len(requests)
    /\ requests[i].kind = "login"
    /\ LET rememberMe == requests[i].rememberMe
           handled == response.success /\ IsSome(response.data)
           data == response.data[1]
           session == IF handled
                      THEN sessionStored(sessionStorage, data, rememberMe)
                      ELSE sessionStorage
           returnUrl == IF IsSome(sessionStorage["returnUrl"])
                        THEN sessionStorage["returnUrl"][1]
                        ELSE "/dashboard"
       IN  /\ authState' = IF handled THEN signedIn(data)
                           ELSE [authState EXCEPT !.isLoading = FALSE]
           /\ localStorage' = IF handled THEN localStored(localStorage, data, rememberMe)
                              ELSE localStorage
           /\ refreshTimer' = (handled \/ refreshTimer)
           /\ IF response.success
              THEN /\ sessionStorage' =
                          storageAfterGuard([session EXCEPT !["returnUrl"] = None], returnUrl,
                                            authState')
                   /\ location' = locationAfterGuard(location, returnUrl, authState')
                   /\ queryParams' = paramsAfterGuard(returnUrl, authState')
              ELSE /\ sessionStorage' = session
                   /\ UNCHANGED <<location, queryParams>>
    /\ requests' = answered(i)
    /\ delivered' = outcome("login", "next", requests[i], Some(response), None, None)
    /\ UNCHANGED <<calls, loggedOut, authRest>>

\* the login request fails: catchError (handleAuthError), the subscriber's error, finalize
LoginError(i, error) ==
    /\ i \in 1..Len(requests)
    /\ requests[i].kind = "login"
    /\ authState' = [authState EXCEPT !.error = Some(authErrorMessage(error)), !.isLoading = FALSE]
    /\ requests' = answered(i)
    /\ delivered' =
           outcome("login", "error", requests[i], None, Some(error), Some(authErrorMessage(error)))
    /\ UNCHANGED <<localStorage, sessionStorage, refreshTimer, location, calls, queryParams,
                   loggedOut, authRest>>

\* DashboardComponent.onLogout: logout(navigateToLogin) and the subscription
Logout(navigateToLogin) ==
    /\ calls < MaxCalls
    /\ Len(requests) < MaxInFlight
    /\ authState' = signedOut
    /\ localStorage' = clearedStorage(localStorage)
    /\ sessionStorage' = clearedStorage(sessionStorage)
    /\ refreshTimer' = FALSE
    /\ IF IsSome(authState.token)
       THEN /\ requests' = Append(requests, logoutRequest(authState, navigateToLogin))
            /\ delivered' = outcome("logout", "pending", logoutRequest(authState, navigateToLogin),
                                    None, None, None)
            /\ UNCHANGED <<location, queryParams>>
       ELSE /\ location' = IF navigateToLogin THEN "/login" ELSE location
            /\ queryParams' = IF navigateToLogin THEN None ELSE queryParams
            /\ delivered' = outcome("logout", "next", logoutCall(navigateToLogin), None, None, None)
            /\ UNCHANGED requests
    /\ calls' = calls + 1
    /\ loggedOut' = TRUE
    /\ UNCHANGED authRest

\* the logout request is answered, or fails with an error that catchError(() => of(null))
\* replaces by a value; finalize navigates
LogoutResponse(i, error) ==
    /\ i \in 1..Len(requests)
    /\ requests[i].kind = "logout"
    /\ location' = IF requests[i].navigateToLogin THEN "/login" ELSE location
    /\ queryParams' = IF requests[i].navigateToLogin THEN None ELSE queryParams
    /\ requests' = answered(i)
    /\ delivered' = outcome("logoutResponse", "next", requests[i], None, error, None)
    /\ UNCHANGED <<authState, localStorage, sessionStorage, refreshTimer, calls, loggedOut,
                   authRest>>

\* refreshToken() and the subscription, by a caller other than the timer
RefreshToken ==
    /\ calls < MaxCalls
    /\ Len(requests) < MaxInFlight
    /\ IF IsSome(authState.refreshToken)
       THEN /\ requests' = Append(requests, refreshRequest(authState, "caller"))
            /\ delivered' = None
       ELSE /\ delivered' = outcome("refresh", "error", refreshCall, None, None,
                                    Some("Refresh token non disponibile"))
            /\ UNCHANGED requests
    /\ calls' = calls + 1
    /\ UNCHANGED <<authState, localStorage, sessionStorage, refreshTimer, location, queryParams,
                   loggedOut, authRest>>

\* the callback of startTokenRefreshTimer runs
TimerFires ==
    /\ refreshTimer
    /\ Len(requests) < MaxInFlight
    /\ refreshTimer' = FALSE
    /\ requests' = IF authState.isAuthenticated /\ IsSome(authState.refreshToken)
                   THEN Append(requests, refreshRequest(authState, "timer"))
                   ELSE requests
    /\ delivered' = None
    /\ UNCHANGED <<authState, localStorage, sessionStorage, location, calls, queryParams,
                   loggedOut, authRest>>

\* the refresh request of a caller or of the timer is answered: tap (handleLoginSuccess
\* without rememberMe)
RefreshResponse(i, response) ==
    /\ i \in 1..Len(requests)
    /\ requests[i].kind = "refresh"
    /\ requests[i].subscriber # "interceptor"
    /\ LET handled == response.success /\ IsSome(response.data)
           data == response.data[1]
       IN  /\ authState' = IF handled THEN signedIn(data) ELSE authState
           /\ localStorage' = IF handled THEN localStored(localStorage, data, FALSE)
                              ELSE localStorage
           /\ sessionStorage' = IF handled THEN sessionStored(sessionStorage, data, FALSE)
                                ELSE sessionStorage
           /\ refreshTimer' = (handled \/ refreshTimer)
    /\ requests' = answered(i)
    /\ delivered' = outcome("refresh", "next", requests[i], Some(response), None, None)
    /\ UNCHANGED <<location, calls, queryParams, loggedOut, authRest>>

\* the refresh request of a caller or of the timer fails: catchError (clearAuthData,
\* rethrow); the timer's subscriber then calls logout(), which finds no token and
\* navigates at once
RefreshError(i, error) ==
    /\ i \in 1..Len(requests)
    /\ requests[i].kind = "refresh"
    /\ requests[i].subscriber # "interceptor"
    /\ authState' = signedOut
    /\ localStorage' = clearedStorage(localStorage)
    /\ sessionStorage' = clearedStorage(sessionStorage)
    /\ refreshTimer' = FALSE
    /\ location' = IF requests[i].subscriber = "timer" THEN "/login" ELSE location
    /\ queryParams' = IF requests[i].subscriber = "timer" THEN None ELSE queryParams
    /\ loggedOut' = (requests[i].subscriber = "timer" \/ loggedOut)
    /\ requests' = answered(i)
    /\ delivered' = outcome("refresh", "error", requests[i], None, Some(error), error.message)
    /\ UNCHANGED <<calls, authRest>>

NextAuth ==
    \/ \E rememberMe \in BOOLEAN : Login(rememberMe)
    \/ \E i \in 1..MaxInFlight, response \in Responses : LoginResponse(i, response)
    \/ \E i \in 1..MaxInFlight, error \in HttpErrors : LoginError(i, error)
    \/ \E navigateToLogin \in BOOLEAN : Logout(navigateToLogin)
    \/ \E i \in 1..MaxInFlight, error \in {None} \cup {Some(e) : e \in ServerFailures} :
          LogoutResponse(i, error)
    \/ RefreshToken
    \/ TimerFires
    \/ \E i \in 1..MaxInFlight, response \in Responses : RefreshResponse(i, response)
    \/ \E i \in 1..MaxInFlight, error \in ServerFailures : RefreshError(i, error)

SpecAuth == InitAuth /\ [][NextAuth]_vars

(***************************************************************************)
(* SpecSession: the service together with authInterceptor and authGuard.   *)
(* A caller sends requests to a protected URL through the interceptor, the *)
(* router is asked to activate routes, and the server answers in any       *)
(* order.  The requests of the service itself go to URLs that are not      *)
(* protected and pass the interceptor untouched.  What the interceptor     *)
(* keeps in its closures (the original request, the token read on entry)   *)
(* travels with the request in flight.                                     *)
(***************************************************************************)
ProtectedUrl == "http://localhost:3000/api/motorcycles"

\* an HttpRequest: its URL and its Authorization header, if set
httpRequest(url) == [url |-> url, authorization |-> None]

\* a variant of addAuthorizationHeader without the prefix of the token
addAuthorizationHeaderBare(req, token) ==
    [req EXCEPT !.authorization = Some([prefix |-> "", token |-> token])]

\* req.clone({setHeaders: {Authorization: `Bearer ${token}`}})
addAuthorizationHeader(req, token) ==
    [req EXCEPT !.authorization = Some([prefix |-> "Bearer ", token |-> token])]

\* authInterceptor on entry: the request handed to next
authReq(req, token) == IF IsSome(token) THEN addAuthorizationHeader(req, token[1]) ELSE req

\* the request in flight for next(authReq), with the original request
apiRequest(req, token) ==
    [kind |-> "api", body |-> authReq(req, token), rememberMe |-> FALSE,
     navigateToLogin |-> FALSE, subscriber |-> "interceptor", originalReq |-> req]

\* handleUnauthorizedError: the refresh request of refreshToken(), with the original request
interceptedRefresh(state, originalReq) ==
    [kind |-> "refresh", body |-> refreshRequest(state, "interceptor").body,
     rememberMe |-> FALSE, navigateToLogin |-> FALSE, subscriber |-> "interceptor",
     originalReq |-> originalReq]

\* handleUnauthorizedError: next(newAuthReq) after the refresh
retryRequest(originalReq, token) ==
    [kind |-> "retry", body |-> addAuthorizationHeader(originalReq, token),
     rememberMe |-> FALSE, navigateToLogin |-> FALSE, subscriber |-> "interceptor",
     originalReq |-> originalReq]

\* the answers of the server to a refresh or a login in this specification
SessionResponses ==
    {[success |-> TRUE, data |-> Some(payload("anna", "t2", Some("r2")))],
     [success |-> TRUE, data |-> None],
     [success |-> FALSE, data |-> Some(payload("anna", "t2", Some("r2")))],
     [success |-> FALSE, data |-> None]}

SessionErrors == {e \in HttpErrors : e.status \in {401, 500} /\ e.message = None}

\* the URLs the router is asked for
Routes == {"/login", "/dashboard", "/chat"}

\* handleAuthFailure: logout(false), whose observable nobody subscribes to, so that only
\* clearAuthData runs; then the navigation to /login with the current URL as returnUrl
handleAuthFailure ==
    /\ authState' = signedOut
    /\ localStorage' = clearedStorage(localStorage)
    /\ sessionStorage' = clearedStorage(sessionStorage)
    /\ refreshTimer' = FALSE
    /\ loggedOut' = TRUE
    /\ location' = "/login"
    /\ queryParams' = Some([returnUrl |-> location, reason |-> "session_expired"])

sessionUnchanged ==
    UNCHANGED <<authState, localStorage, sessionStorage, refreshTimer, loggedOut, location,
                queryParams>>

\* a caller sends a request to a protected URL: authInterceptor up to next(authReq)
ProtectedRequest(url) ==
    /\ calls < MaxCalls
    /\ Len(requests) < MaxInFlight
    /\ requests' = Append(requests, apiRequest(httpRequest(url), authState.token))
    /\ delivered' = None
    /\ calls' = calls + 1
    /\ sessionUnchanged
    /\ UNCHANGED authRest

\* the server answers a protected request, first or re-sent: the caller gets the value
ApiResponse(i) ==
    /\ i \in 1..Len(requests)
    /\ requests[i].kind \in {"api", "retry"}
    /\ requests' = answered(i)
    /\ delivered' = outcome(requests[i].kind, "next", requests[i], None, None, None)
    /\ sessionUnchanged
    /\ UNCHANGED <<calls, authRest>>

\* a protected request fails: the catchError of authInterceptor.  With status 401 and a
\* token on entry it is handleUnauthorizedError: refreshToken() sends the refresh request,
\* or errors at once when the state holds no refresh token
ApiError(i, error) ==
    /\ i \in 1..Len(requests)
    /\ requests[i].kind = "api"
    /\ IF error.status = 401 /\ IsSome(requests[i].body.authorization)
       THEN IF IsSome(authState.refreshToken)
            THEN /\ requests' = Append(answered(i),
                                       interceptedRefresh(authState, requests[i].originalReq))
                 /\ delivered' = outcome("api", "pending", requests[i], None, Some(error), None)
                 /\ sessionUnchanged
            ELSE /\ requests' = answered(i)
                 /\ delivered' = outcome("api", "error", requests[i], None, Some(error),
                                         Some("Sessione scaduta"))
                 /\ handleAuthFailure
       ELSE /\ requests' = answered(i)
            /\ delivered' = outcome("api", "error", requests[i], None, Some(error), error.message)
            /\ sessionUnchanged
    /\ UNCHANGED <<calls, authRest>>

\* the refresh request of the interceptor is answered: the tap of refreshToken()
\* (handleLoginSuccess), then switchMap: the original request again with the new token,
\* or handleAuthFailure
InterceptedRefreshResponse(i, response) ==
    /\ i \in 1..Len(requests)
    /\ requests[i].kind = "refresh"
    /\ requests[i].subscriber = "interceptor"
    /\ LET handled == response.success /\ IsSome(response.data)
           data == response.data[1]
       IN  IF handled
           THEN /\ authState' = signedIn(data)
                /\ localStorage' = localStored(localStorage, data, FALSE)
                /\ sessionStorage' = sessionStored(sessionStorage, data, FALSE)
                /\ refreshTimer' = TRUE
                /\ requests' = Append(answered(i),
                                      retryRequest(requests[i].originalReq, data.token))
                /\ delivered' = outcome("intercepted", "pending", requests[i], Some(response),
                                        None, None)
                /\ UNCHANGED <<loggedOut, location, queryParams>>
           ELSE /\ requests' = answered(i)
                /\ delivered' = outcome("intercepted", "error", requests[i], Some(response),
                                        None, Some("Sessione scaduta"))
                /\ handleAuthFailure
    /\ UNCHANGED <<calls, authRest>>

\* the refresh request of the interceptor fails: the catchError of refreshToken()
\* (clearAuthData, rethrow), then the catchError of handleUnauthorizedError
InterceptedRefreshError(i, error) ==
    /\ i \in 1..Len(requests)
    /\ requests[i].kind = "refresh"
    /\ requests[i].subscriber = "interceptor"
    /\ requests' = answered(i)
    /\ delivered' = outcome("intercepted", "error", requests[i], None, Some(error),
                            Some("Sessione scaduta"))
    /\ handleAuthFailure
    /\ UNCHANGED <<calls, authRest>>

\* the re-sent request fails: the catchError of handleUnauthorizedError covers it too
RetryError(i, error) ==
    /\ i \in 1..Len(requests)
    /\ requests[i].kind = "retry"
    /\ requests' = answered(i)
    /\ delivered' = outcome("retry", "error", requests[i], None, Some(error),
                            Some("Sessione scaduta"))
    /\ handleAuthFailure
    /\ UNCHANGED <<calls, authRest>>

\* the router is asked for a URL: authGuard on the protected routes
Navigate(url) ==
    /\ calls < MaxCalls
    /\ sessionStorage' = storageAfterGuard(sessionStorage, url, authState)
    /\ location' = locationAfterGuard(location, url, authState)
    /\ queryParams' = paramsAfterGuard(url, authState)
    /\ delivered' = outcome("navigate", IF canActivate(url, authState) THEN "allowed" ELSE "denied",
                            [kind |-> "navigate", url |-> url], None, None, None)
    /\ calls' = calls + 1
    /\ UNCHANGED <<authState, localStorage, requests, refreshTimer, loggedOut, authRest>>

NextSession ==
    \/ \E rememberMe \in BOOLEAN : Login(rememberMe)
    \/ \E i \in 1..MaxInFlight, response \in SessionResponses : LoginResponse(i, response)
    \/ \E i \in 1..MaxInFlight, error \in SessionErrors : LoginError(i, error)
    \/ \E navigateToLogin \in BOOLEAN : Logout(navigateToLogin)
    \/ \E i \in 1..MaxInFlight : LogoutResponse(i, None)
    \/ RefreshToken
    \/ TimerFires
    \/ \E i \in 1..MaxInFlight, response \in SessionResponses : RefreshResponse(i, response)
    \/ \E i \in 1..MaxInFlight, error \in SessionErrors : RefreshError(i, error)
    \/ ProtectedRequest(ProtectedUrl)
    \/ \E i \in 1..MaxInFlight : ApiResponse(i)
    \/ \E i \in 1..MaxInFlight, error \in SessionErrors : ApiError(i, error)
    \/ \E i \in 1..MaxInFlight, response \in SessionResponses :
          InterceptedRefreshResponse(i, response)
    \/ \E i \in 1..MaxInFlight, error \in SessionErrors : InterceptedRefreshError(i, error)
    \/ \E i \in 1..MaxInFlight, error \in SessionErrors : RetryError(i, error)
    \/ \E url \in Routes : Navigate(url)

SpecSession == InitAuth /\ [][NextSession]_vars

(***************************************************************************)
(* Properties of parseMotorcycleTable, stated over SpecTable.              *)
(***************************************************************************)
RowFields ==
    {"brand", "model", "version", "displacement", "power", "dryWeight", "fullWeight", "price",
     "notes"}

\* the rows of an optional table, none when the table is absent
rowsOf(t) == IF IsSome(t) THEN t[1].rows ELSE <<>>

\* some header line of the block is followed by a data row of nine cells
headerThenNineCells(lines) ==
    \E i, j \in 1..Len(lines) :
        i < j /\ lines[i] \in HeaderLines /\ lines[j] \in NineCellRows

\* the cell is made of dash and equals characters only
onlyDashesOrEquals(cell) ==
    cell # <<>> /\ \A k \in 1..Len(cell) : cell[k] \in {"-", "="}

\* a header, an optional separator row, then well-formed rows only
isPlainTable(lines) ==
    /\ Len(lines) >= 2
    /\ lines[1] = LineHeader
    /\ \A i \in 2..Len(lines) :
          \/ lines[i] \in {LineHonda, LineKtm}
          \/ i = 2 /\ lines[i] = LineDashes /\ Len(lines) >= 3

\* C2: a block text holding a header row that names the brand column,
\* followed by a well-formed row of nine cells, gives a table of at least
\* one row, and every row has the nine fields of MotorcycleRow.
C2_HeaderAndRowGiveTable ==
    (tablePc = "done" /\ headerThenNineCells(tableLines)) =>
        /\ IsSome(table)
        /\ Len(table[1].rows) >= 1
        /\ \A i \in 1..Len(table[1].rows) : DOMAIN table[1].rows[i] = RowFields

\* C3: no returned row has a brand that is the header term 'marca' in any
\* letter case, or that is made of dash or equals characters only, whatever
\* the block text, repeated header rows and several separator rows included.
C3_NoHeaderOrSeparatorRow ==
    tablePc = "done" =>
        \A i \in 1..Len(rowsOf(table)) :
            /\ toLowerCase(rowsOf(table)[i].brand) # LitMarcaLower
            /\ ~onlyDashesOrEquals(rowsOf(table)[i].brand)

\* C6: a table collapsed onto a single line gives the same sequence of rows,
\* field for field, as the same table written with one row per line.
C6_CollapsedSameRows ==
    (tablePc = "done" /\ layout = "collapsed" /\ isPlainTable(tableLines)) =>
        rowsOf(table) = rowsOf(parseMotorcycleTable(blockText(tableLines, "lines")))

C8_NoPipeOrNoHeaderTermNoTable ==
    (tablePc = "done"
        /\ (~includes(tableString, <<Pipe>>) \/ ~includes(tableString, LitMarca))) =>
        table = None

\* a block text with the header term and no pipe was parsed to no table
C8_NoPipeParsed ==
    /\ tablePc = "done"
    /\ tableString # <<>>
    /\ ~includes(tableString, <<Pipe>>)
    /\ table = None

(***************************************************************************)
(* Properties of parseStructuredResponse, stated over Spec.                *)
(***************************************************************************)
NothingFound(content_) ==
    [shortAnswer |-> None, details |-> None, suggestions |-> None, rawContent |-> content_]

HondaRow == motorcycleRow(lineCells(LineHonda))

countOf(lines, line) == Cardinality({i \in 1..Len(lines) : lines[i] = line})

\* the reply of Scenario A: plain labels, a table of three valid rows
ScenarioA ==
    /\ sections = [short |-> ShortPlainLabel, sugg |-> SuggPlainLabel]
    /\ tableLines \in {<<LineHeader, LineHonda, LineHonda, LineHonda>>,
                       <<LineHeader, LineDashes, LineHonda, LineHonda, LineHonda>>}

\* the reply of Scenario C: one row of five cells among valid rows
ScenarioC ==
    /\ tableLines # <<>>
    /\ countOf(tableLines, LineFiveCells) = 1
    /\ countOf(tableLines, LineHonda) >= 1

\* the reply of Scenario D: prose, no table, no numbered section
ScenarioD ==
    /\ sections.short \in {ProsePlain, ProseWithYear}
    /\ sections.sugg = <<>>
    /\ tableLines = <<>>

\* both are matched => the first range ends before the second begins
spanBefore(a, b) == (a.found /\ b.found) => a.last < b.first

\* C1: parseStructuredResponse answers every content, the empty one
\* included, and the rawContent of the result is the content, character for
\* character, whichever sections were found.
C1_RawContentIsInput ==
    /\ pc = "received" =>
          DOMAIN parseStructuredResponse(content)
              = {"shortAnswer", "details", "suggestions", "rawContent"}
    /\ pc = "parsed" => IsSome(result) /\ result[1].rawContent = content

\* a reply ending with a line break was parsed, its suggestions found and
\* its short answer not
C1_ParsedWithBreak ==
    /\ pc = "parsed"
    /\ content # <<>>
    /\ content[Len(content)] = NL
    /\ IsSome(result[1].suggestions)
    /\ ~IsSome(result[1].shortAnswer)
    /\ result[1].rawContent = content

\* C4: Scenario A gives the short answer "X", a details table of exactly
\* three rows and the suggestions "a", "b".
C4_ScenarioA ==
    (pc = "parsed" /\ ScenarioA) =>
        /\ result[1].shortAnswer = Some(TextX)
        /\ Len(rowsOf(result[1].details)) = 3
        /\ result[1].suggestions = Some(<<TextA, TextB>>)

\* C5: Scenario C leaves the row of five cells out of details.rows and
\* keeps every valid row of the block, wherever the short row sits.
C5_ScenarioC ==
    (pc = "parsed" /\ ScenarioC) =>
        /\ Len(rowsOf(result[1].details)) = countOf(tableLines, LineHonda)
        /\ \A i \in 1..Len(rowsOf(result[1].details)) :
              rowsOf(result[1].details)[i] = HondaRow

\* C9: the ranges of the content behind the short answer, the table and the
\* suggestions, when two or more are present, lie in that order: each ends
\* before the next begins.
C9_SpansInOrder ==
    pc = "parsed" =>
        /\ spanBefore(spans[1].shortAnswer, spans[1].details)
        /\ spanBefore(spans[1].details, spans[1].suggestions)
        /\ spanBefore(spans[1].shortAnswer, spans[1].suggestions)

\* C10: Scenario D leaves shortAnswer, details and suggestions absent and
\* rawContent is the content.
C10_ScenarioD ==
    (pc = "parsed" /\ ScenarioD) => result[1] = NothingFound(content)

(***************************************************************************)
(* Properties of the suggestions, stated over SpecSuggestions.             *)
(***************************************************************************)
\* the suggestions of the result, none when they are absent
suggestionsFound ==
    IF pc = "parsed" /\ IsSome(result[1].suggestions) THEN result[1].suggestions[1] ELSE <<>>

\* the fragments the items of the reply are split into: the ending of the
\* reply belongs to the last one
itemFragments(sec) ==
    [k \in 1..Len(sec.items) |->
        IF k = Len(sec.items) THEN sec.items[k] \o sec.ending ELSE sec.items[k]]

\* the label of LabelEnumerated, the fragment it gives under the enumerator pattern
LabelFragment == SubSeq(LabelEnumerated, 4, Len(LabelEnumerated))

\* the item is the fragment trimmed, less one period at its end if it had one
periodRemoved(item, fragment) ==
    IF trim(fragment) # <<>> /\ trim(fragment)[Len(trim(fragment))] = "."
    THEN item \o <<".">> = trim(fragment)
    ELSE item = trim(fragment)

\* the fragments longer than ten characters
longerThanTen(fragments) == SelectSeq(fragments, LAMBDA f : Len(f) > 10)

\* C11: every item of suggestions is not empty, neither begins nor ends with
\* white space, and is a fragment of the reply less one period at its end.
C11_ItemsCleanedAndTrimmed ==
    pc = "parsed" =>
        \A k \in 1..Len(suggestionsFound) :
            LET item == suggestionsFound[k]
            IN  /\ item # <<>>
                /\ item[1] \notin WhiteSpace
                /\ item[Len(item)] \notin WhiteSpace
                /\ \E j \in 0..Len(sections.items) :
                      periodRemoved(item, IF j = 0 THEN LabelFragment
                                          ELSE itemFragments(sections)[j])

\* C12: a fragment is kept if and only if it is longer than 10 characters,
\* under each of the three suggestions patterns: the suggestions are the
\* fragments longer than 10 characters, in order, and a fragment of exactly
\* 10 characters is never among them.
C12_KeptIffLongerThanTen ==
    pc = "parsed" =>
        LET kept == longerThanTen(itemFragments(sections))
        IN  IF kept # <<>>
            THEN /\ Len(suggestionsFound) = Len(kept)
                 /\ \A k \in 1..Len(kept) : periodRemoved(suggestionsFound[k], kept[k])
            ELSE suggestionsFound =
                     IF sections.label = LabelEnumerated THEN <<LabelFragment>> ELSE <<>>

\* a fragment of 10 characters was discarded and one of 11 characters kept
C12_TenDiscardedElevenKept ==
    /\ pc = "parsed"
    /\ sections.items = <<ItemTen, ItemEleven>>
    /\ sections.ending = <<>>
    /\ suggestionsFound = <<ItemEleven>>

(***************************************************************************)
(* Properties of ChatComponent.sendBotResponse, stated over SpecChat.      *)
(***************************************************************************)
\* the handler of a reply has started and has not yet appended the bot message
inSendBotResponse == pc \in {"arrived", "typingRemoved", "formatted"}

\* C13 as stated: between the arrival of a reply and the completion of
\* parseStructuredResponse the messages signal does not change.
C13_NoChangeBeforeFormatted ==
    [][(pc \in {"arrived", "typingRemoved"}) => messages' = messages]_vars

\* C13: while a reply is handled the messages signal changes twice at most:
\* the typing message is removed before parseStructuredResponse runs, and the
\* bot message is appended after it, carrying the answer and the
\* FormattedResponse computed from the whole answer; until then the chat
\* stays loading.
C13_AppendedAfterFormatted ==
    [][inSendBotResponse =>
          /\ isLoading
          /\ messages' # messages =>
                \/ /\ pc = "arrived"
                   /\ messages' = withoutTyping(messages)
                \/ /\ pc = "formatted"
                   /\ result = Some(parseStructuredResponse(content))
                   /\ messages' =
                          Append(messages,
                                 [id |-> "generated", content |-> content, sender |-> "bot",
                                  isTyping |-> FALSE, formattedResponse |-> result])]_vars

\* a reply with a table was handled: its bot message is the last of the list
C13_BotMessageWithTable ==
    /\ pc = "idle"
    /\ Len(messages) >= 2
    /\ LET last == messages[Len(messages)]
       IN  /\ last.sender = "bot"
           /\ IsSome(last.formattedResponse)
           /\ IsSome(last.formattedResponse[1].details)
           /\ last.formattedResponse[1].rawContent = last.content
    /\ \A i \in 1..Len(messages) : messages[i].id # "typing"

(***************************************************************************)
(* Properties of AuthService, stated over SpecAuth.                        *)
(***************************************************************************)
\* every key of AUTH_STORAGE_KEYS is absent from the storage
storageCleared(storage) == \A key \in AUTH_STORAGE_KEYS : storage[key] = None

\* the last step belonged to a call of this operation
lastStep(op) == IsSome(delivered) /\ delivered[1].op = op

\* the last step handled a successful answer that carries a data payload
answeredWithData(op) ==
    /\ lastStep(op)
    /\ delivered[1].kind = "next"
    /\ IsSome(delivered[1].response)
    /\ delivered[1].response[1].success
    /\ IsSome(delivered[1].response[1].data)

answeredData == delivered[1].response[1].data[1]

\* C14: when logout() returns, from any state, the service is unauthenticated,
\* user and token are null and every auth storage key is absent from both
\* storages; when the logout completes (at once if no token was held, else
\* when the server request has succeeded or failed) with the default
\* argument, the router has been navigated to /login.
C14_LoggedOutAfterLogout ==
    /\ lastStep("logout") =>
          /\ ~authState.isAuthenticated
          /\ authState.user = None
          /\ authState.token = None
          /\ storageCleared(localStorage)
          /\ storageCleared(sessionStorage)
    /\ (/\ \/ lastStep("logout") /\ delivered[1].kind = "next"
           \/ lastStep("logoutResponse")
        /\ delivered[1].call.navigateToLogin) => location = "/login"

\* the server request of a logout made with a token has failed
C14_LogoutFailedAtServer ==
    /\ lastStep("logoutResponse")
    /\ IsSome(delivered[1].error)
    /\ delivered[1].call.navigateToLogin
    /\ delivered[1].call.body.token = "t1"
    /\ location = "/login"
    /\ ~authState.isAuthenticated
    /\ storageCleared(localStorage)
    /\ storageCleared(sessionStorage)

\* C15: when the login request is answered with success true and a data
\* payload, once the call has completed the service is authenticated with
\* the user and the token of the payload, no error, and not loading.
C15_AuthenticatedAfterLogin ==
    answeredWithData("login") =>
        /\ authState.isAuthenticated
        /\ authState.user = Some(answeredData.user)
        /\ authState.token = Some(answeredData.token)
        /\ authState.error = None
        /\ ~authState.isLoading

\* a login was answered with the payload of bruno
C15_LoggedInAsBruno ==
    /\ answeredWithData("login")
    /\ answeredData.user = "bruno"
    /\ authState.user = Some("bruno")
    /\ authState.token = Some(answeredData.token)

\* the step handles the failure of a login request with HTTP status 401
loginFails401 ==
    /\ IsSome(delivered')
    /\ delivered'[1].op = "login"
    /\ IsSome(delivered'[1].error)
    /\ delivered'[1].error[1].status = 401

\* C16: when the login request fails with HTTP 401 the observable errors
\* with the message 'Credenziali non valide'; isAuthenticated, user, token
\* and refreshToken keep their values, error becomes that message and
\* isLoading becomes false.
C16_FailedLoginChangesOnlyError ==
    [][loginFails401 =>
          /\ delivered'[1].kind = "error"
          /\ delivered'[1].message = Some("Credenziali non valide")
          /\ authState'.isAuthenticated = authState.isAuthenticated
          /\ authState'.user = authState.user
          /\ authState'.token = authState.token
          /\ authState'.refreshToken = authState.refreshToken
          /\ authState'.error = Some("Credenziali non valide")
          /\ ~authState'.isLoading]_vars

\* a login has failed with 401 and the service is unauthenticated
C16_Rejected ==
    /\ lastStep("login")
    /\ delivered[1].kind = "error"
    /\ IsSome(delivered[1].error)
    /\ delivered[1].error[1].status = 401
    /\ ~authState.isAuthenticated
    /\ authState.token = None
    /\ authState.error = Some("Credenziali non valide")

\* the step sends a refresh request
refreshSent ==
    /\ Len(requests') = Len(requests) + 1
    /\ requests'[Len(requests')].kind = "refresh"

\* C17: a refresh request is sent only with the refresh token the state
\* holds as its body; when it is answered with success and a data payload
\* the token of the state is the token of the payload and the state is
\* authenticated.
C17_RefreshCarriesTokenAndRenews ==
    [][/\ refreshSent =>
             /\ IsSome(authState.refreshToken)
             /\ requests'[Len(requests')].body = [refreshToken |-> authState.refreshToken[1]]
       /\ (/\ IsSome(delivered')
           /\ delivered'[1].op = "refresh"
           /\ delivered'[1].kind = "next"
           /\ delivered'[1].response[1].success
           /\ IsSome(delivered'[1].response[1].data)) =>
             /\ authState'.token = Some(delivered'[1].response[1].data[1].token)
             /\ authState'.isAuthenticated]_vars

\* a refresh sent with r1 was answered with the token t2
C17_Renewed ==
    /\ answeredWithData("refresh")
    /\ delivered[1].call.body = [refreshToken |-> "r1"]
    /\ answeredData.token = "t2"
    /\ authState.token = Some("t2")
    /\ authState.isAuthenticated

\* C18: when the refresh request fails the subscriber gets the error and
\* the state is cleared (unauthenticated, no token, refresh token or user,
\* no auth key in either storage); when refreshToken() is called without a
\* refresh token in the state, it errors, sends nothing and leaves state
\* and storages as they were.
C18_RefreshFailureClears ==
    [][(IsSome(delivered') /\ delivered'[1].op = "refresh" /\ delivered'[1].kind = "error") =>
          IF IsSome(delivered'[1].error)
          THEN /\ ~authState'.isAuthenticated
               /\ authState'.token = None
               /\ authState'.refreshToken = None
               /\ authState'.user = None
               /\ \A key \in AUTH_STORAGE_KEYS :
                     localStorage'[key] = None /\ sessionStorage'[key] = None
               /\ Len(requests') = Len(requests) - 1
          ELSE /\ authState.refreshToken = None
               /\ delivered'[1].message = Some("Refresh token non disponibile")
               /\ requests' = requests
               /\ authState' = authState
               /\ localStorage' = localStorage
               /\ sessionStorage' = sessionStorage]_vars

\* a refresh sent with r1 by a caller has failed
C18_RefreshFailed ==
    /\ lastStep("refresh")
    /\ delivered[1].kind = "error"
    /\ IsSome(delivered[1].error)
    /\ delivered[1].call.body = [refreshToken |-> "r1"]
    /\ delivered[1].call.subscriber = "caller"
    /\ authState = signedOut
    /\ storageCleared(localStorage)
    /\ storageCleared(sessionStorage)

\* C19: a successful login with rememberMe true writes the token and the
\* user to localStorage and sets the remember-me key there to 'true'; with
\* rememberMe false it writes them to sessionStorage and writes nothing to
\* localStorage.
C19_StoredWhereRemembered ==
    [][(/\ IsSome(delivered')
        /\ delivered'[1].op = "login"
        /\ delivered'[1].kind = "next"
        /\ delivered'[1].response[1].success
        /\ IsSome(delivered'[1].response[1].data)) =>
          LET data == delivered'[1].response[1].data[1]
          IN  IF delivered'[1].call.rememberMe
              THEN /\ localStorage'["wyr_auth_token"] = Some(data.token)
                   /\ localStorage'["wyr_user_data"] = Some([json |-> data.user])
                   /\ localStorage'["wyr_remember_me"] = Some("true")
              ELSE /\ sessionStorage'["wyr_auth_token"] = Some(data.token)
                   /\ sessionStorage'["wyr_user_data"] = Some([json |-> data.user])
                   /\ localStorage' = localStorage]_vars

\* a login with rememberMe true has stored its data in localStorage alone
C19_Remembered ==
    /\ answeredWithData("login")
    /\ delivered[1].call.rememberMe
    /\ localStorage["wyr_auth_token"] = Some(answeredData.token)
    /\ localStorage["wyr_remember_me"] = Some("true")
    /\ sessionStorage["wyr_auth_token"] = None

(***************************************************************************)
(* The choice of the table pattern, stated over Spec.                      *)
(***************************************************************************)
\* the table parsed from the joined matches of pattern i, absent when there is no match
parsedOfPattern(s, i) ==
    LET matches == tablePatternMatches(s, i)
    IN  IF matches = <<>> THEN None ELSE parseMotorcycleTable(fullTable(s, matches))

\* pattern i matches and its joined matches parse to at least one row
yieldsRows(s, i) ==
    LET parsed == parsedOfPattern(s, i)
    IN  IsSome(parsed) /\ Len(parsed[1].rows) >= 1

\* C20: details is the table parsed from the joined matches of the first of
\* the three patterns, in their order, that parses to at least one row; a
\* pattern that matches and parses to no row is passed over; when no
\* pattern yields a row details is absent; a details table that is present
\* has at least one row.
C20_FirstPatternWithRows ==
    pc = "parsed" =>
        LET details == result[1].details
            yielding == {i \in 1..3 : yieldsRows(content, i)}
        IN  /\ yielding = {} => details = None
            /\ yielding # {} => details = parsedOfPattern(content, Min(yielding))
            /\ IsSome(details) => Len(details[1].rows) >= 1

\* the first pattern matched the header and parsed to no row; the table comes from a later one
C20_FirstPatternPassedOver ==
    /\ pc = "parsed"
    /\ tablePatternMatches(content, 1) # <<>>
    /\ ~yieldsRows(content, 1)
    /\ IsSome(result[1].details)
    /\ Len(result[1].details[1].rows) >= 1

(***************************************************************************)
(* The separator row of the line-oriented path, stated over SpecSeparator. *)
(***************************************************************************)
\* the line is made of cells that are runs of dashes or of equals signs
separatorRow(line) ==
    LET cells == lineCells(line)
    IN  cells # <<>> /\ \A k \in 1..Len(cells) : onlyDashesOrEquals(cells[k])

\* the lines after the header that are not separator rows
dataLinesAfterHeader(lines) ==
    SelectSeq(SubSeq(lines, 2, Len(lines)), LAMBDA line : ~separatorRow(line))

\* C21: in a block written one row per line, every line after the header
\* that is not a separator row (a row of dash or equals runs) is read as a
\* data line: the rows returned, those made of a separator row set aside,
\* are the rows of all such lines, in order.
C21_NoDataLineSkipped ==
    tablePc = "done" =>
        SelectSeq(rowsOf(table), LAMBDA row : ~onlyDashesOrEquals(row.brand))
            = motorcycleRows(acceptedLineCells(dataLinesAfterHeader(tableLines)))

(***************************************************************************)
(* Properties of parseAdvancedSingleLine, stated over SpecAdvanced.        *)
(***************************************************************************)
\* the matches of the row pattern in the block text, as trimmed cells
matchesOf(s) == advancedMatchesFrom(s, pipePositions(s), 1)

\* the first cell holds the brand header term
headerCells(cells) == includes(toLowerCase(cells[1]), LitMarcaLower)

\* the indexes of the matches that are neither the header (the first match
\* whose first cell holds the header term) nor a separator (first cell a
\* run of dashes or of equals signs)
remainingMatches(matches) ==
    LET headers == {i \in 1..Len(matches) : headerCells(matches[i])}
    IN  {i \in 1..Len(matches) :
            /\ headers # {} => i # Min(headers)
            /\ ~onlyDashesOrEquals(matches[i][1])}

\* the eight leading cells are non-empty
eightLeadingCells(cells) == \A k \in 1..MinCells : cells[k] # <<>>

\* C22: the first match whose first cell holds the header term gives the
\* columns; every row comes from a match that is neither that header nor a
\* separator, and only from one whose eight leading cells are non-empty.
C22_RowsFromFullMatches ==
    tablePc = "done" =>
        LET matches == matchesOf(tableString)
            headers == {i \in 1..Len(matches) : headerCells(matches[i])}
        IN  /\ (IsSome(table) /\ headers # {}) => table[1].columns = matches[Min(headers)]
            /\ \A r \in 1..Len(rowCells) :
                  /\ \E i \in remainingMatches(matches) : matches[i] = rowCells[r]
                  /\ eightLeadingCells(rowCells[r])

(***************************************************************************)
(* Properties of authInterceptor, authGuard and logout (SpecSession,       *)
(* SpecAuth)                                                               *)
(***************************************************************************)
\* handleAuthFailure has run: the state and the storages are cleared and the router is
\* at /login for an expired session
sessionExpired ==
    /\ authState = signedOut
    /\ storageCleared(localStorage)
    /\ storageCleared(sessionStorage)
    /\ location = "/login"
    /\ queryParams # None
    /\ queryParams[1].reason = "session_expired"

\* the last step gave the caller of the protected request the error of an expired session
failedAsExpired ==
    /\ delivered[1].kind = "error"
    /\ delivered[1].message = Some("Sessione scaduta")
    /\ sessionExpired

\* the request sent last
lastRequest == requests[Len(requests)]

\* C23: when a protected request that was sent with a token fails with 401, the
\* interceptor asks the service for a token refresh: the refresh request is sent with
\* the refresh token held, or the refresh fails at once.  When the refresh is answered
\* successfully with a new token, the original request is sent again with
\* "Bearer <new token>" as its Authorization header; when the refresh fails or brings
\* no token, the auth state is cleared, the router is at /login with reason
\* 'session_expired' and the caller gets the error 'Sessione scaduta'.
C23_RefreshThenRetryOrExpire ==
    /\ (/\ lastStep("api")
        /\ delivered[1].error # None
        /\ delivered[1].error[1].status = 401
        /\ delivered[1].call.body.authorization # None)
            => \/ /\ delivered[1].kind = "pending"
                  /\ requests # <<>>
                  /\ lastRequest.kind = "refresh"
                  /\ lastRequest.body = [refreshToken |-> authState.refreshToken[1]]
                  /\ lastRequest.originalReq = delivered[1].call.originalReq
               \/ failedAsExpired
    /\ lastStep("intercepted") =>
           IF /\ delivered[1].response # None
              /\ delivered[1].response[1].success
              /\ delivered[1].response[1].data # None
           THEN /\ delivered[1].kind = "pending"
                /\ requests # <<>>
                /\ lastRequest.kind = "retry"
                /\ lastRequest.body.url = delivered[1].call.originalReq.url
                /\ lastRequest.body.authorization =
                       Some([prefix |-> "Bearer ",
                             token |-> delivered[1].response[1].data[1].token])
           ELSE failedAsExpired

\* the refresh brought the token t2, and the original request is in flight again with
\* "Bearer t2" as its header
C23_ResentWithNewToken ==
    /\ lastStep("intercepted")
    /\ delivered[1].kind = "pending"
    /\ lastRequest.kind = "retry"
    /\ lastRequest.body = [url |-> ProtectedUrl,
                           authorization |-> Some([prefix |-> "Bearer ", token |-> "t2"])]
    /\ authState.token = Some("t2")

\* the URL the router was asked for in the last step
askedUrl == delivered[1].call.url

\* C24: authGuard lets a navigation to a protected route pass if and only if the
\* service is authenticated when it is asked, and then the router is at that route;
\* when it denies, the requested URL is stored under 'returnUrl' in sessionStorage and
\* the router is at /login.  A login from the login page that succeeds while a
\* returnUrl is stored navigates to the stored URL and removes it from sessionStorage.
C24_GuardAndReturnUrl ==
    [][/\ (lastStep("navigate")' /\ askedUrl' \in ProtectedRoutes) =>
              /\ (delivered'[1].kind = "allowed") = authState.isAuthenticated
              /\ delivered'[1].kind \in {"allowed", "denied"}
              /\ delivered'[1].kind = "allowed" => location' = askedUrl'
              /\ delivered'[1].kind = "denied" =>
                     /\ sessionStorage'["returnUrl"] = Some(askedUrl')
                     /\ location' = "/login"
       /\ (answeredWithData("login")' /\ sessionStorage["returnUrl"] # None) =>
              /\ location' = sessionStorage["returnUrl"][1]
              /\ sessionStorage'["returnUrl"] = None]_vars

\* the guard denied /chat, and the login that followed has brought the router there
C24_BackToChatAfterLogin ==
    /\ answeredWithData("login")
    /\ location = "/chat"
    /\ sessionStorage["returnUrl"] = None
    /\ authState.isAuthenticated

\* C25: once logout() has cleared the auth state, and until login() is called again,
\* the service is unauthenticated and holds no token, whatever answers arrive for the
\* login and refresh requests that were in flight and whatever the refresh timer does.
C25_StaysLoggedOut ==
    loggedOut => (~authState.isAuthenticated /\ authState.token = None)

====
